---- MODULE Spec2Model ----
(***************************************************************************)
(* zerosleap: the pair channel (conn/), the worker loop and its client     *)
(* (comp/), and the tracker (processing/tracking/).                         *)
(*                                                                         *)
(* Four specifications share the variables:                                *)
(*   SpecChan     two PairNode endpoints exchanging dict and array messages *)
(*   SpecProc     a Processor (client) and its ProcessingServer (worker)    *)
(*   SpecTracker  a Tracker driven by update() calls                        *)
(*   SpecTrack    one Track driven by tracker_step / add / initializing     *)
(***************************************************************************)
EXTENDS Integers, Sequences, FiniteSets, TLC

VARIABLES
    created,          \* the endpoints whose socket is connected (client) or bound (server), in creation order
    pipe,             \* pipe[e]: frames in flight towards endpoint e, oldest first
    sent,             \* sent[e]: the objects endpoint e passed to send_dict / send_array
    recvd,            \* recvd[e]: per completed receive of e, the operation and the frames it consumed
    got,              \* got[e]: what the last receive of e returned
    kind,             \* the Processor class: "video" (VideoProcessor) or "track" (TrackProcessor)
    send_flag,        \* Processor._send_flag
    reset_flag,       \* TrackProcessor._reset_flag
    tracks,           \* TrackProcessor.tracks
    server_metrics,   \* Processor._server_metrics
    closed,           \* the client's socket and context are closed
    cpc,              \* where the client is: "idle", "recv" (blocked in recv_dict inside recv),
                      \* "stop_recv" (blocked in recv_dict inside stop), "stop_term" (stop() before
                      \* terminate), "stopped" (stop() returned), "raised" (a call raised)
    last_call,        \* the last of send / recv the client called, "none" before the first
    alternating,      \* the client's calls of send and recv have alternated so far
    last_recv,        \* the last recv call: the flag when it was called, whether it called
                      \* recv_dict, what it returned
    stop_log,         \* the steps the stop() call has performed, in order
    wpc,              \* where the worker is: "building", "recv" (blocked in recv_array), "process",
                      \* "stopped" (loop left), "failed" (run raised), "terminated" (killed)
    metrics,          \* ProcessingServer._metrics
    wreq,             \* the request the worker is serving, the type of its result, and
                      \* since: the requests to process received since the metrics were
                      \* last reset, by build or after a stalled receive, this one included
    nprocess,         \* how many times the worker has called process
    min_drop_life,    \* Tracker.min_drop_life
    max_drop_life,    \* Tracker.max_drop_life
    tracked_objects,  \* Tracker.tracked_objects: the live tracks
    track_count,      \* Track.count, the class attribute the ids come from
    ncalls,           \* how many update calls (SpecTracker) or Track operations (SpecTrack) so far
    last_op,          \* the last Track operation (SpecTrack) or update call (SpecTracker)
    id_log            \* the ids assigned to tracks so far, in the order of assignment

chanVars == <<created, pipe, sent, recvd, got>>

clientVars == <<kind, send_flag, reset_flag, tracks, server_metrics, closed, cpc,
                last_call, alternating, last_recv, stop_log>>

workerVars == <<wpc, metrics, wreq, nprocess>>

procVars == <<clientVars, workerVars>>

trackerVars == <<min_drop_life, max_drop_life, tracked_objects, track_count, ncalls, last_op,
                 id_log>>

vars == <<chanVars, procVars, trackerVars>>

(***************************************************************************)
(* Bounds of the model.                                                    *)
(***************************************************************************)
MaxMsgs == 2          \* messages sent over the channel in one behaviour of SpecChan

MaxReq == 2           \* send() calls of the Processor in one behaviour of SpecProc

(***************************************************************************)
(* Python values, as far as json.dumps / json.loads tell them apart.       *)
(***************************************************************************)
PyNone == [t |-> "none"]

PyBool(x) == [t |-> "bool", b |-> x]

PyInt(x) == [t |-> "int", n |-> x]

PyStr(x) == [t |-> "str", s |-> x]

PyList(xs) == [t |-> "list", items |-> xs]

PyTuple(xs) == [t |-> "tuple", items |-> xs]

\* a dict in insertion order: keys[i] maps to items[i]
PyDict(ks, xs) == [t |-> "dict", keys |-> ks, items |-> xs]

\* `key in d`
PyHasKey(d, k) == \E i \in 1..Len(d.keys) : d.keys[i] = k

\* d[key] (the caller checks PyHasKey first; a missing key is a KeyError)
PyGet(d, k) == d.items[CHOOSE i \in 1..Len(d.keys) : d.keys[i] = k]

(***************************************************************************)
(* JSON documents: what send_json puts on the wire.                        *)
(***************************************************************************)
JNull == [j |-> "null"]

JBool(x) == [j |-> "bool", b |-> x]

JNum(x) == [j |-> "number", n |-> x]

JStr(x) == [j |-> "string", s |-> x]

JArr(xs) == [j |-> "array", items |-> xs]

\* an object: member names (strings) in document order, with their values
JObj(ns, xs) == [j |-> "object", names |-> ns, items |-> xs]

Digit(d) == CASE d = 0 -> "0" [] d = 1 -> "1" [] d = 2 -> "2" [] d = 3 -> "3" [] d = 4 -> "4"
              [] d = 5 -> "5" [] d = 6 -> "6" [] d = 7 -> "7" [] d = 8 -> "8" [] OTHER -> "9"

RECURSIVE NatToStr(_)
NatToStr(n) == IF n < 10 THEN Digit(n) ELSE NatToStr(n \div 10) \o Digit(n % 10)

\* str(int)
IntToStr(n) == IF n < 0 THEN "-" \o NatToStr(-n) ELSE NatToStr(n)

\* json.dumps turns a dict key into a member name: str as is, int, bool and
\* None by their JSON spelling
KeyToName(k) ==
    CASE k.t = "str" -> k.s
      [] k.t = "int" -> IntToStr(k.n)
      [] k.t = "bool" -> (IF k.b THEN "true" ELSE "false")
      [] OTHER -> "null"

\* json.dumps: list and tuple both become an array, a dict becomes an object
RECURSIVE json_dumps(_)
json_dumps(v) ==
    CASE v.t = "none" -> JNull
      [] v.t = "bool" -> JBool(v.b)
      [] v.t = "int" -> JNum(v.n)
      [] v.t = "str" -> JStr(v.s)
      [] v.t \in {"list", "tuple"} -> JArr([i \in 1..Len(v.items) |-> json_dumps(v.items[i])])
      [] OTHER -> JObj([i \in 1..Len(v.keys) |-> KeyToName(v.keys[i])],
                       [i \in 1..Len(v.items) |-> json_dumps(v.items[i])])

\* dict(pairs): a repeated key keeps its first position and takes the last value
RECURSIVE DictFromPairs(_, _, _)
DictFromPairs(ks, xs, acc) ==
    IF ks = <<>> THEN acc
    ELSE LET k == Head(ks)
             x == Head(xs)
             next == IF PyHasKey(acc, k)
                     THEN LET i == CHOOSE i \in 1..Len(acc.keys) : acc.keys[i] = k
                          IN  PyDict(acc.keys, [acc.items EXCEPT ![i] = x])
                     ELSE PyDict(Append(acc.keys, k), Append(acc.items, x))
         IN  DictFromPairs(Tail(ks), Tail(xs), next)

\* json.loads: an array becomes a list, an object a dict with str keys
RECURSIVE json_loads(_)
json_loads(d) ==
    CASE d.j = "null" -> PyNone
      [] d.j = "bool" -> PyBool(d.b)
      [] d.j = "number" -> PyInt(d.n)
      [] d.j = "string" -> PyStr(d.s)
      [] d.j = "array" -> PyList([i \in 1..Len(d.items) |-> json_loads(d.items[i])])
      [] OTHER -> DictFromPairs([i \in 1..Len(d.names) |-> PyStr(d.names[i])],
                                [i \in 1..Len(d.items) |-> json_loads(d.items[i])],
                                PyDict(<<>>, <<>>))

(***************************************************************************)
(* numpy arrays: a dtype, a shape, and a view (offset, strides in bytes)   *)
(* on a buffer of bytes.                                                   *)
(***************************************************************************)
NdArray(dt, sh, st, off, m) == [dtype |-> dt, shape |-> sh, strides |-> st, offset |-> off, mem |-> m]

NoArray == NdArray("", <<>>, <<>>, 0, <<>>)

\* dtype.itemsize
ItemSize(dt) == CASE dt = "uint8" -> 1 [] dt = "float64" -> 8 [] OTHER -> 2

\* dtype.byteorder: ">u2" is big-endian, "uint16" little-endian
BigEndian(dt) == dt = ">u2"

RECURSIVE Product(_)
Product(s) == IF s = <<>> THEN 1 ELSE Head(s) * Product(Tail(s))

\* the strides of a C-ordered (row-major) array of this shape
CStrides(sh, isz) == [k \in 1..Len(sh) |-> isz * Product(SubSeq(sh, k + 1, Len(sh)))]

\* data.flags['C_CONTIGUOUS']: the strides are the row-major ones, not
\* counting the axes of length 1
IsCContiguous(a) ==
    \A k \in 1..Len(a.shape) :
        a.shape[k] = 1 \/ a.strides[k] = CStrides(a.shape, ItemSize(a.dtype))[k]

\* the multi-index (0-based) of the p-th element (0-based) in row-major order
Unravel(sh, p) == [k \in 1..Len(sh) |-> (p \div Product(SubSeq(sh, k + 1, Len(sh)))) % sh[k]]

RECURSIVE Dot(_, _)
Dot(u, v) == IF u = <<>> THEN 0 ELSE Head(u) * Head(v) + Dot(Tail(u), Tail(v))

\* the bytes of the p-th element of the array, as they lie in memory
ElemBytes(a, p) ==
    LET at == a.offset + Dot(Unravel(a.shape, p), a.strides)
    IN  SubSeq(a.mem, at + 1, at + ItemSize(a.dtype))

RECURSIVE BigEndianValue(_)
BigEndianValue(bs) ==
    IF bs = <<>> THEN 0 ELSE 256 * BigEndianValue(SubSeq(bs, 1, Len(bs) - 1)) + bs[Len(bs)]

RECURSIVE LittleEndianValue(_)
LittleEndianValue(bs) == IF bs = <<>> THEN 0 ELSE Head(bs) + 256 * LittleEndianValue(Tail(bs))

\* the value of an element from its bytes (for float64, its bit pattern)
ElemValue(dt, bs) == IF BigEndian(dt) THEN BigEndianValue(bs) ELSE LittleEndianValue(bs)

\* the elements of the array in row-major order
Elems(a) == [p \in 1..Product(a.shape) |-> ElemValue(a.dtype, ElemBytes(a, p - 1))]

RECURSIVE Flatten(_)
Flatten(ss) == IF ss = <<>> THEN <<>> ELSE Head(ss) \o Flatten(Tail(ss))

\* the bytes of the elements in row-major order
RowMajorBytes(a) == Flatten([p \in 1..Product(a.shape) |-> ElemBytes(a, p - 1)])

\* np.ascontiguousarray: a row-major copy
ascontiguousarray(a) ==
    NdArray(a.dtype, a.shape, CStrides(a.shape, ItemSize(a.dtype)), 0, RowMajorBytes(a))

\* the buffer zmq sends for an array (copy=False): the memory the view
\* starts at, as many bytes as the array holds
BufferOf(a) == SubSeq(a.mem, a.offset + 1, a.offset + Product(a.shape) * ItemSize(a.dtype))

\* np.frombuffer(bytes, dtype): a one-dimensional array over the bytes
frombuffer(bs, dt) == NdArray(dt, <<Len(bs) \div ItemSize(dt)>>, <<ItemSize(dt)>>, 0, bs)

\* ndarray.reshape of a contiguous array: same memory, row-major strides
reshape(a, sh) == NdArray(a.dtype, sh, CStrides(sh, ItemSize(a.dtype)), a.offset, a.mem)

\* equal in shape, dtype and every element
ArrayEq(a, b) == a.dtype = b.dtype /\ a.shape = b.shape /\ Elems(a) = Elems(b)

(***************************************************************************)
(* The socket: a ZMQ PAIR socket carries frames in order; the frames of a  *)
(* multipart message (SNDMORE) are queued together.  `mid` is the index in *)
(* sent[] of the send call the frame comes from (history only).            *)
(***************************************************************************)
Endpoints == {"client", "server"}

Peer(e) == IF e = "client" THEN "server" ELSE "client"

JsonFrame(doc, more, mid) == [f |-> "json", doc |-> doc, more |-> more, mid |-> mid]

BytesFrame(bs, more, mid) == [f |-> "bytes", body |-> bs, more |-> more, mid |-> mid]

\* send_json with the frame put ahead of the frames already queued
send_json_lifo(q, obj, more, mid) == <<JsonFrame(json_dumps(obj), more, mid)>> \o q

\* zmq.Socket.send_json(obj, flags): one frame holding the document
send_json(q, obj, more, mid) == Append(q, JsonFrame(json_dumps(obj), more, mid))

\* zmq.Socket.send(data, copy=False): one frame holding the buffer
send_bytes(q, a, mid) == Append(q, BytesFrame(BufferOf(a), FALSE, mid))

\* SerializingSocket.send_array: the meta data frame, then the array's buffer
socket_send_array(q, data, args, mid) ==
    LET meta_data == PyDict(<<PyStr("args"), PyStr("dtype"), PyStr("shape")>>,
                            <<args, PyStr(data.dtype),
                              PyTuple([k \in 1..Len(data.shape) |-> PyInt(data.shape[k])])>>)
    IN  send_bytes(send_json(q, meta_data, TRUE, mid), data, mid)

\* PairNode.send_array with the array sent as it lies in memory
send_array_as_is(q, args, data, mid) == socket_send_array(q, data, args, mid)

\* PairNode.send_array: a non-contiguous array is copied row-major first
send_array(q, args, data, mid) ==
    IF IsCContiguous(data)
    THEN socket_send_array(q, data, args, mid)
    ELSE socket_send_array(q, ascontiguousarray(data), args, mid)

\* PairNode.send_dict with the nested values dropped
send_dict_flat(q, data, mid) ==
    send_json(q, PyDict(data.keys, [i \in 1..Len(data.items) |->
                            IF data.items[i].t \in {"list", "tuple", "dict"}
                            THEN PyNone ELSE data.items[i]]), FALSE, mid)

\* PairNode.send_dict putting nothing on the wire
send_dict_dropped(q, data, mid) == q

\* PairNode.send_dict
send_dict(q, data, mid) == send_json(q, data, FALSE, mid)

\* what a receive call hands back: the value, the array, whether it raised,
\* the frames left in the pipe, and the frames it consumed
Result(val, arr, err, rest, used) ==
    [val |-> val, arr |-> arr, err |-> err, rest |-> rest, used |-> used]

\* PairNode.recv_dict: recv_json on the next frame; a frame that holds no
\* JSON document makes json.loads raise
recv_dict(q) ==
    LET fr == Head(q)
    IN  IF fr.f = "json"
        THEN Result(json_loads(fr.doc), NoArray, FALSE, Tail(q), <<fr>>)
        ELSE Result(PyNone, NoArray, TRUE, Tail(q), <<fr>>)

\* a shape read back from the meta data: a list of ints
ShapeOf(v) == [k \in 1..Len(v.items) |-> v.items[k].n]

IsShape(v) == v.t \in {"list", "tuple"} /\ \A k \in 1..Len(v.items) : v.items[k].t = "int"

\* SerializingSocket.recv_array / PairNode.recv_array: recv_json, then recv,
\* then frombuffer and reshape.  It raises when the first frame is no JSON
\* document, when the document lacks dtype, shape or args, and when the
\* bytes do not fit dtype and shape.
recv_array(q) ==
    LET f1 == q[1]
        f2 == q[2]
        meta_data == json_loads(f1.doc)
        rest == SubSeq(q, 3, Len(q))
    IN  IF f1.f # "json" THEN Result(PyNone, NoArray, TRUE, Tail(q), <<f1>>)
        ELSE IF \/ meta_data.t # "dict"
                \/ ~PyHasKey(meta_data, PyStr("dtype"))
                \/ ~PyHasKey(meta_data, PyStr("shape"))
                \/ ~PyHasKey(meta_data, PyStr("args"))
                \/ f2.f # "bytes"
        THEN Result(PyNone, NoArray, TRUE, rest, <<f1, f2>>)
        ELSE LET dt == PyGet(meta_data, PyStr("dtype"))
                 sh == PyGet(meta_data, PyStr("shape"))
             IN  IF \/ dt.t # "str" \/ ~IsShape(sh)
                    \/ Len(f2.body) % ItemSize(dt.s) # 0
                    \/ Product(ShapeOf(sh)) * ItemSize(dt.s) # Len(f2.body)
                 THEN Result(PyNone, NoArray, TRUE, rest, <<f1, f2>>)
                 ELSE Result(PyGet(meta_data, PyStr("args")),
                             reshape(frombuffer(f2.body, dt.s), ShapeOf(sh)),
                             FALSE, rest, <<f1, f2>>)

\* recv_array returns once two frames have arrived: the two frames of a
\* buffer message arrive together, a single-frame message leaves it waiting
\* for the next frame
CanRecvArray(q) == Len(q) >= 2 \/ (Len(q) = 1 /\ q[1].f # "json")

IsCreated(e) == \E i \in 1..Len(created) : created[i] = e

\* a connecting socket queues what it sends from connect() on; a bound
\* socket has no pipe to send on before its peer is there
CanSend(e) == IsCreated(e) /\ (e = "server" => IsCreated("client"))

\* frames reach an endpoint once both sockets exist
CanRecv(e) == IsCreated("client") /\ IsCreated("server") /\ pipe[e] # <<>>

NoResult == [op |-> "none", val |-> PyNone, arr |-> NoArray, err |-> FALSE]

(***************************************************************************)
(* The inputs of SpecChan.                                                 *)
(***************************************************************************)
\* {"test_data": True}, the dict of tests/test_conn.py
TestDict == PyDict(<<PyStr("test_data")>>, <<PyBool(TRUE)>>)

\* {"tracks": {"1": [[0, 5]]}, "metrics": {"iteration": 1}}
NestedDict ==
    PyDict(<<PyStr("tracks"), PyStr("metrics")>>,
           <<PyDict(<<PyStr("1")>>, <<PyList(<<PyList(<<PyInt(0), PyInt(5)>>)>>)>>),
             PyDict(<<PyStr("iteration")>>, <<PyInt(1)>>)>>)

\* {"tracks": {1: [[0, 5]]}}: the result TrackProcessingServer.process builds,
\* keyed by the int track id
IntKeyDict ==
    PyDict(<<PyStr("tracks")>>,
           <<PyDict(<<PyInt(1)>>, <<PyList(<<PyList(<<PyInt(0), PyInt(5)>>)>>)>>)>>)

\* {"points": (3, 4), "label": None}
TupleDict == PyDict(<<PyStr("points"), PyStr("label")>>, <<PyTuple(<<PyInt(3), PyInt(4)>>), PyNone>>)

DictSet == {TestDict, NestedDict, IntKeyDict, TupleDict}

\* the args of VideoProcessor.send, TrackProcessor.send and stop()
VideoArgs(peaks, heatmaps) ==
    PyDict(<<PyStr("peaks"), PyStr("heatmaps"), PyStr("metrics")>>,
           <<PyBool(peaks), PyBool(heatmaps), PyBool(TRUE)>>)

TrackArgs(reset) == PyDict(<<PyStr("reset"), PyStr("metrics")>>, <<PyBool(reset), PyBool(TRUE)>>)

StopArgs == PyDict(<<PyStr("stop")>>, <<PyBool(TRUE)>>)

\* a 2 x 2 uint8 array in row-major order
ArrC == NdArray("uint8", <<2, 2>>, <<2, 1>>, 0, <<1, 2, 3, 4>>)

\* its transpose: the same memory read column by column
ArrT == NdArray("uint8", <<2, 2>>, <<1, 2>>, 0, <<1, 2, 3, 4>>)

\* a[::2] of a uint16 array of four elements
ArrStep == NdArray("uint16", <<2>>, <<4>>, 0, <<1, 0, 2, 0, 3, 1, 4, 0>>)

\* a[1:] of a big-endian uint16 array of three elements, as one row
ArrTail == NdArray(">u2", <<1, 2>>, <<4, 2>>, 2, <<0, 9, 1, 7, 0, 8>>)

\* a column of a 2 x 2 uint16 array: a[:, 1:]
ArrCol == NdArray("uint16", <<2, 1>>, <<4, 2>>, 2, <<5, 0, 6, 0, 7, 0, 8, 1>>)

\* the (args, array) pairs sent as buffer messages
ArrayMsgs ==
    { <<VideoArgs(TRUE, TRUE), ArrT>>,
      <<TrackArgs(FALSE), ArrStep>>,
      <<StopArgs, ArrTail>>,
      <<PyDict(<<PyInt(7)>>, <<PyBool(TRUE)>>), ArrCol>>,
      <<PyDict(<<PyStr("roi")>>, <<PyTuple(<<PyInt(0), PyInt(1)>>)>>), ArrC>> }

(***************************************************************************)
(* The worker's metrics.  Times are in microseconds, so that the initial   *)
(* overall_time of 0.000001 is 1 and the stall threshold of 1 is 1000000.  *)
(***************************************************************************)
OverallTimeInit == 1

StallThreshold == 1000000

\* ProcessingServer.init_metrics
init_metrics ==
    [iteration |-> 1, overall_time |-> OverallTimeInit, recv_time |-> 0, send_time |-> 0,
     comp_time |-> 0]

\* ProcessingServer.__init__: self._metrics = {}
NoMetrics ==
    [iteration |-> 0, overall_time |-> 0, recv_time |-> 0, send_time |-> 0, comp_time |-> 0]

\* the metrics dict as process puts it into its output
MetricsDict(m) ==
    PyDict(<<PyStr("iteration"), PyStr("overall_time"), PyStr("recv_time"), PyStr("send_time"),
             PyStr("comp_time")>>,
           <<PyInt(m.iteration), PyInt(m.overall_time), PyInt(m.recv_time), PyInt(m.send_time),
             PyInt(m.comp_time)>>)

\* the state of the Processor and its worker while only the channel is used
NoRequest == [args |-> PyNone, data |-> NoArray, recv_dur |-> 0, result |-> "none", since |-> 0]

\* a log entry of the worker: the operation; what it sent is in pipe and got
Logged(op) == [op |-> op, val |-> PyNone, arr |-> NoArray]

NoRecvCall == [called |-> FALSE, pending |-> FALSE, entered |-> FALSE, ret |-> "none"]

InitProcIdle ==
    /\ kind = "video"
    /\ send_flag = FALSE
    /\ reset_flag = FALSE
    /\ tracks = PyDict(<<>>, <<>>)
    /\ server_metrics = PyDict(<<>>, <<>>)
    /\ closed = FALSE
    /\ cpc = "idle"
    /\ last_call = "none"
    /\ alternating = TRUE
    /\ last_recv = NoRecvCall
    /\ stop_log = <<>>
    /\ wpc = "building"
    /\ metrics = NoMetrics
    /\ wreq = NoRequest
    /\ nprocess = 0

\* no Track operation yet
NoOp == [op |-> "none", dc |-> 0, flag |-> TRUE, follow |-> -1, idle |-> -1,
         quiet |-> 0, base |-> <<>>]

\* the tracker while only the channel or the Processor is used: as
\* Tracker.__init__ leaves it, with the default lives
InitTrackerIdle ==
    /\ min_drop_life = 10
    /\ max_drop_life = 25
    /\ tracked_objects = <<>>
    /\ track_count = 0
    /\ ncalls = 0
    /\ last_op = NoOp
    /\ id_log = <<>>

(***************************************************************************)
(* SpecChan: the operations of PairClient / PairServer.                    *)
(***************************************************************************)
InitChanVars ==
    /\ created = <<>>
    /\ pipe = [e \in Endpoints |-> <<>>]
    /\ sent = [e \in Endpoints |-> <<>>]
    /\ recvd = [e \in Endpoints |-> <<>>]
    /\ got = [e \in Endpoints |-> NoResult]

SentTotal == Len(sent["client"]) + Len(sent["server"])

\* PairClient.__init__: connect
Connect ==
    /\ ~IsCreated("client")
    /\ created' = Append(created, "client")
    /\ UNCHANGED <<pipe, sent, recvd, got>>

\* PairServer.__init__: bind
Bind ==
    /\ ~IsCreated("server")
    /\ created' = Append(created, "server")
    /\ UNCHANGED <<pipe, sent, recvd, got>>

\* e.send_dict(d)
SendDict(e, d) ==
    /\ CanSend(e)
    /\ SentTotal < MaxMsgs
    /\ pipe' = [pipe EXCEPT ![Peer(e)] = send_dict(@, d, Len(sent[e]) + 1)]
    /\ sent' = [sent EXCEPT ![e] = Append(@, [op |-> "dict", val |-> d, arr |-> NoArray])]
    /\ UNCHANGED <<created, recvd, got>>

\* e.send_array(args, data)
SendArray(e, args, data) ==
    /\ CanSend(e)
    /\ SentTotal < MaxMsgs
    /\ pipe' = [pipe EXCEPT ![Peer(e)] = send_array(@, args, data, Len(sent[e]) + 1)]
    /\ sent' = [sent EXCEPT ![e] = Append(@, [op |-> "array", val |-> args, arr |-> data])]
    /\ UNCHANGED <<created, recvd, got>>

Mids(frames) == [i \in 1..Len(frames) |-> frames[i].mid]

\* e.recv_dict()
RecvDict(e) ==
    /\ CanRecv(e)
    /\ LET r == recv_dict(pipe[e])
       IN  /\ pipe' = [pipe EXCEPT ![e] = r.rest]
           /\ got' = [got EXCEPT ![e] = [op |-> "dict", val |-> r.val, arr |-> r.arr, err |-> r.err]]
           /\ recvd' = [recvd EXCEPT ![e] = Append(@, [op |-> "dict", mids |-> Mids(r.used)])]
    /\ UNCHANGED <<created, sent>>

\* e.recv_array()
RecvArray(e) ==
    /\ CanRecv(e)
    /\ CanRecvArray(pipe[e])
    /\ LET r == recv_array(pipe[e])
       IN  /\ pipe' = [pipe EXCEPT ![e] = r.rest]
           /\ got' = [got EXCEPT ![e] = [op |-> "array", val |-> r.val, arr |-> r.arr, err |-> r.err]]
           /\ recvd' = [recvd EXCEPT ![e] = Append(@, [op |-> "array", mids |-> Mids(r.used)])]
    /\ UNCHANGED <<created, sent>>

InitChan == InitChanVars /\ InitProcIdle /\ InitTrackerIdle

NextChan ==
    \/ Connect /\ UNCHANGED <<procVars, trackerVars>>
    \/ Bind /\ UNCHANGED <<procVars, trackerVars>>
    \/ \E e \in Endpoints, d \in DictSet : SendDict(e, d) /\ UNCHANGED <<procVars, trackerVars>>
    \/ \E e \in Endpoints, m \in ArrayMsgs : SendArray(e, m[1], m[2]) /\ UNCHANGED <<procVars, trackerVars>>
    \/ \E e \in Endpoints : RecvDict(e) /\ UNCHANGED <<procVars, trackerVars>>
    \/ \E e \in Endpoints : RecvArray(e) /\ UNCHANGED <<procVars, trackerVars>>

SpecChan == InitChan /\ [][NextChan]_vars

(***************************************************************************)
(* Claims about the channel (SpecChan).                                    *)
(***************************************************************************)
\* the send call whose frames the i-th receive of e consumed first
SentFor(e, i) == sent[Peer(e)][recvd[e][i].mids[1]]

\* every receive of e so far used the operation that matches the message it
\* started on: recv_dict for a dict message, recv_array for a buffer message
InStep(e) == \A i \in 1..Len(recvd[e]) : recvd[e][i].op = SentFor(e, i).op

\* the object whose message the last receive of e returned
LastSent(e) == SentFor(e, Len(recvd[e]))

\* a value json can carry unchanged: str keys in every dict, no tuple
RECURSIVE JsonNative(_)
JsonNative(v) ==
    CASE v.t \in {"none", "bool", "int", "str"} -> TRUE
      [] v.t = "list" -> \A i \in 1..Len(v.items) : JsonNative(v.items[i])
      [] v.t = "tuple" -> FALSE
      [] OTHER -> /\ \A i \in 1..Len(v.keys) : v.keys[i].t = "str"
                  /\ \A i \in 1..Len(v.items) : JsonNative(v.items[i])

\* C1 as stated: for every args dict and every array, contiguous or not,
\* send_array then recv_array on the peer returns args equal to the args
\* sent and an array equal in shape, dtype and every element.
C1_RoundTripAnyArgs ==
    \A e \in Endpoints :
        (recvd[e] # <<>> /\ InStep(e) /\ got[e].op = "array") =>
            /\ ~got[e].err
            /\ got[e].val = LastSent(e).val
            /\ ArrayEq(got[e].arr, LastSent(e).arr)

\* C1 amended: the array always comes back equal in shape, dtype and every
\* element, contiguous or not; the args come back equal when every dict in
\* them has str keys and they hold no tuple.
C1_RoundTrip ==
    \A e \in Endpoints :
        (recvd[e] # <<>> /\ InStep(e) /\ got[e].op = "array") =>
            /\ ~got[e].err
            /\ ArrayEq(got[e].arr, LastSent(e).arr)
            /\ JsonNative(LastSent(e).val) => got[e].val = LastSent(e).val

\* C1 witness: the server has received a non-contiguous array sent with the
\* args of VideoProcessor.send
C1_Witness ==
    /\ recvd["server"] # <<>> /\ InStep("server") /\ got["server"].op = "array"
    /\ ~IsCContiguous(LastSent("server").arr)
    /\ JsonNative(LastSent("server").val)
    /\ Elems(got["server"].arr) = <<1, 3, 2, 4>>

\* C2 as stated: for every dict of nested mappings, sequences, scalars and
\* booleans, send_dict then recv_dict on the peer returns an equal
\* structure, whichever endpoint was created first.
C2_DictRoundTripAny ==
    \A e \in Endpoints :
        (recvd[e] # <<>> /\ InStep(e) /\ got[e].op = "dict") =>
            ~got[e].err /\ got[e].val = LastSent(e).val

\* C2 amended: for every dict whose mappings all have str keys and whose
\* sequences are lists, send_dict then recv_dict on the peer returns an
\* equal structure, whichever endpoint was created first.
C2_DictRoundTrip ==
    \A e \in Endpoints :
        (recvd[e] # <<>> /\ InStep(e) /\ got[e].op = "dict") =>
            /\ ~got[e].err
            /\ JsonNative(LastSent(e).val) => got[e].val = LastSent(e).val

\* C2 witness: as in test_pair_connection the client was created first; the
\* server has received a nested dict the client sent
C2_Witness ==
    /\ created = <<"client", "server">>
    /\ recvd["server"] # <<>> /\ InStep("server") /\ got["server"].op = "dict"
    /\ LastSent("server").val = NestedDict
    /\ got["server"].val = NestedDict

\* the messages still in flight towards e, by send call, oldest first
RECURSIVE InFlight(_)
InFlight(q) ==
    IF q = <<>> THEN <<>>
    ELSE IF Len(q) >= 2 /\ q[1].more /\ q[2].mid = q[1].mid
         THEN <<q[1].mid>> \o InFlight(SubSeq(q, 3, Len(q)))
         ELSE <<q[1].mid>> \o InFlight(Tail(q))

\* C3: the receives on the peer return the messages sent on an endpoint in
\* send order, each exactly once, none lost or duplicated: the i-th receive
\* consumed the frames of the i-th send and of no other, and the sends not
\* yet received are in flight, in order.
C3_InOrderExactlyOnce ==
    \A e \in Endpoints :
        InStep(e) =>
            /\ \A i \in 1..Len(recvd[e]) :
                   \A k \in 1..Len(recvd[e][i].mids) : recvd[e][i].mids[k] = i
            /\ InFlight(pipe[e]) =
                   [k \in 1..(Len(sent[Peer(e)]) - Len(recvd[e])) |-> Len(recvd[e]) + k]

\* C3 witness: the server has received two messages of the client, a dict
\* and a buffer message, in the order sent
C3_Witness ==
    /\ Len(recvd["server"]) = 2 /\ InStep("server")
    /\ sent["client"][1].op = "dict" /\ sent["client"][2].op = "array"
    /\ recvd["server"][2].mids = <<2, 2>>

(***************************************************************************)
(* The worker: ProcessingServer.run and the process of the two servers.    *)
(***************************************************************************)
\* `"stop" in args`
HasStop(args) ==
    CASE args.t = "dict" -> PyHasKey(args, PyStr("stop"))
      [] args.t \in {"list", "tuple"} -> \E i \in 1..Len(args.items) : args.items[i] = PyStr("stop")
      [] OTHER -> FALSE

\* the stop check looking for another key
HasStopOtherKey(args) == args.t = "dict" /\ PyHasKey(args, PyStr("quit"))

\* the check of run: `if "stop" in args: break`
StopRequested(args) == HasStop(args)

\* `if x:` for the values the args carry
Truthy(v) ==
    CASE v.t = "bool" -> v.b
      [] v.t = "int" -> v.n # 0
      [] v.t = "none" -> FALSE
      [] v.t = "str" -> v.s # ""
      [] v.t = "dict" -> v.keys # <<>>
      [] OTHER -> v.items # <<>>

\* what the inference finds in a chunk: the frame index of each peak
FrameIdxSet == {<<0, 1>>, <<1>>}

\* what the tracker returns: the ids of the tracked objects
TrackedIdSet == {<<>>, <<1>>}

ProcessInputs(k) == IF k = "video" THEN FrameIdxSet ELSE TrackedIdSet

\* process raises a KeyError when an option it reads is not in args
ProcessRaises(k, args) ==
    \/ args.t # "dict"
    \/ k = "video" /\ \E key \in {"heatmaps", "peaks", "metrics"} : ~PyHasKey(args, PyStr(key))
    \/ k = "track" /\ \E key \in {"reset", "metrics"} : ~PyHasKey(args, PyStr(key))

\* VideoProcessingServer.process: heatmaps, peaks and metrics as requested
VideoOutput(args, frame_idx, m) ==
    LET heat == IF Truthy(PyGet(args, PyStr("heatmaps")))
                THEN <<<<PyStr("heatmaps"), PyList(<<PyList(<<PyInt(0)>>)>>)>>>> ELSE <<>>
        peaks == PyDict(<<PyStr("points"), PyStr("peak_vals"), PyStr("frame_idx")>>,
                        <<PyList([i \in 1..Len(frame_idx) |-> PyList(<<PyInt(10 * i), PyInt(10 * i + 1)>>)]),
                          PyList([i \in 1..Len(frame_idx) |-> PyInt(1)]),
                          PyList([i \in 1..Len(frame_idx) |-> PyInt(frame_idx[i])])>>)
        pk == IF Truthy(PyGet(args, PyStr("peaks"))) THEN <<<<PyStr("peaks"), peaks>>>> ELSE <<>>
        mt == IF Truthy(PyGet(args, PyStr("metrics")))
              THEN <<<<PyStr("metrics"), MetricsDict(m)>>>> ELSE <<>>
        all == heat \o pk \o mt
    IN  PyDict([i \in 1..Len(all) |-> all[i][1]], [i \in 1..Len(all) |-> all[i][2]])

\* TrackProcessingServer.process: the estimate of every tracked object under
\* its id, and the metrics if requested
TrackOutput(args, ids, m) ==
    LET points == PyDict([i \in 1..Len(ids) |-> PyInt(ids[i])],
                         [i \in 1..Len(ids) |-> PyList(<<PyList(<<PyInt(0), PyInt(5)>>)>>)])
        mt == IF Truthy(PyGet(args, PyStr("metrics")))
              THEN <<<<PyStr("metrics"), MetricsDict(m)>>>> ELSE <<>>
        all == <<<<PyStr("tracks"), points>>>> \o mt
    IN  PyDict([i \in 1..Len(all) |-> all[i][1]], [i \in 1..Len(all) |-> all[i][2]])

ProcessOutput(k, args, inp, m) ==
    IF k = "video" THEN VideoOutput(args, inp, m) ELSE TrackOutput(args, inp, m)

\* how long a receive, a computation and a send take
RecvDurations == {1, 2 * StallThreshold}

CompDurations == {3}

SendDurations == {1}

\* the type of the results of VideoProcessingServer.process and
\* TrackProcessingServer.process
ResultTypes == {"dict"}

\* the types of the results of the process of any ProcessingServer: a dict,
\* an array, or something else
AnyResultTypes == {"dict", "ndarray", "other"}

\* run: every result type is taken as supported
NothingNotSupported(rtype) == FALSE

\* run: `raise AssertionError(f'Not supported output type ...')`, which the
\* except around the send turns into ConnectionError
NotSupported(rtype) == rtype \notin {"dict", "ndarray"}

\* run with build() called at the top of the loop instead of before it
W_Build_in_loop ==
    /\ wpc \in {"building", "recv"}
    /\ created' = Append(created, "server")
    /\ metrics' = init_metrics
    /\ wpc' = "recv"
    /\ UNCHANGED <<pipe, sent, recvd, got, wreq, nprocess, clientVars, trackerVars>>

\* run, up to the loop: build() binds the socket and initializes the metrics
W_Build ==
    /\ wpc = "building"
    /\ created' = Append(created, "server")
    /\ metrics' = init_metrics
    /\ wpc' = "recv"
    /\ UNCHANGED <<pipe, sent, recvd, got, wreq, nprocess, clientVars, trackerVars>>

\* run, from the top of the loop to the stop check: count the iteration,
\* receive the request, reset the metrics after a stalled receive, add the
\* receive time, leave the loop on a stop request
W_Recv(dur) ==
    /\ wpc = "recv"
    /\ CanRecv("server")
    /\ CanRecvArray(pipe["server"])
    /\ LET r == recv_array(pipe["server"])
           m1 == [metrics EXCEPT !.iteration = @ + 1]
           m2 == IF dur > StallThreshold THEN init_metrics ELSE m1
           m3 == [m2 EXCEPT !.recv_time = @ + dur]
       IN  /\ pipe' = [pipe EXCEPT !["server"] = r.rest]
           /\ got' = [got EXCEPT !["server"] = [op |-> "array", val |-> r.val, arr |-> r.arr, err |-> r.err]]
           /\ recvd' = [recvd EXCEPT !["server"] = Append(@, [op |-> "array", mids |-> Mids(r.used)])]
           /\ IF r.err
              THEN /\ wpc' = "failed"
                   /\ metrics' = m1
                   /\ UNCHANGED wreq
              ELSE /\ metrics' = m3
                   /\ IF r.val.t = "none"
                      THEN wpc' = "failed" /\ UNCHANGED wreq
                      ELSE IF StopRequested(r.val)
                           THEN wpc' = "stopped" /\ UNCHANGED wreq
                           ELSE /\ wpc' = "process"
                                /\ wreq' = [args |-> r.val, data |-> r.arr, recv_dur |-> dur,
                                         result |-> "none",
                                         since |-> IF dur > StallThreshold THEN 1
                                                   ELSE wreq.since + 1]
    /\ UNCHANGED <<created, sent, nprocess, clientVars, trackerVars>>

\* run, from the call of process to the end of the loop body: compute, add
\* the computation time, send a dict result, add the send time and the time
\* of the whole iteration.  An array result is not sent (`pass`); on a
\* result of another type run raises.
W_Serve(inp, rtype, cdur, sdur) ==
    /\ wpc = "process"
    /\ nprocess' = nprocess + 1
    /\ IF ProcessRaises(kind, wreq.args)
       THEN /\ wpc' = "failed"
            /\ UNCHANGED <<pipe, sent, metrics, wreq>>
       ELSE LET m1 == [metrics EXCEPT !.comp_time = @ + cdur]
                output == ProcessOutput(kind, wreq.args, inp, m1)
                m2 == [m1 EXCEPT !.send_time = @ + sdur,
                                 !.overall_time = @ + wreq.recv_dur + cdur + sdur]
            IN  /\ wreq' = [wreq EXCEPT !.result = rtype]
                /\ IF NotSupported(rtype)
                   THEN /\ metrics' = m1
                        /\ wpc' = "failed"
                        /\ UNCHANGED <<pipe, sent>>
                   ELSE /\ metrics' = m2
                        /\ wpc' = "recv"
                        /\ IF rtype = "dict"
                           THEN /\ pipe' = [pipe EXCEPT !["client"] =
                                               send_dict(@, output, Len(sent["server"]) + 1)]
                                /\ sent' = [sent EXCEPT !["server"] = Append(@, Logged("dict"))]
                           ELSE UNCHANGED <<pipe, sent>>
    /\ UNCHANGED <<created, recvd, got, clientVars, trackerVars>>

(***************************************************************************)
(* The client: VideoProcessor and TrackProcessor.                          *)
(***************************************************************************)
\* the chunk of images VideoProcessor.send is given (np.stack: contiguous)
VideoData == ArrC

\* np.array(data) of one detected point [x, y]: float64, shape (1, 2)
TrackData == NdArray("float64", <<1, 2>>, <<16, 8>>, 0, <<0, 0, 0, 0, 0, 0, 240, 63, 0, 0, 0, 0, 0, 0, 0, 64>>)

\* the array of the stop request: np.ndarray([1, 1, 1]) for the video
\* processor, np.ndarray([]) for the track processor; its memory is not
\* initialized, `fill` stands for what it happens to hold
StopData(k, fill) ==
    IF k = "video"
    THEN NdArray("float64", <<1, 1, 1>>, <<8, 8, 8>>, 0, [i \in 1..8 |-> fill])
    ELSE NdArray("float64", <<>>, <<>>, 0, [i \in 1..8 |-> fill])

FillSet == {0, 255}

\* the frame indexes of a peaks result, as Python ints
IdxOf(peaks) == LET l == PyGet(peaks, PyStr("frame_idx")) IN [i \in 1..Len(l.items) |-> l.items[i].n]

\* VideoProcessor.recv, the peaks: a list with one slot per distinct frame
\* index; a frame index that is no position of the list is an IndexError
PeaksRaise(peaks) ==
    LET idx == IdxOf(peaks)
        n == Cardinality({idx[i] : i \in 1..Len(idx)})
    IN  \E i \in 1..Len(idx) : idx[i] >= n

PeakPoints(peaks) ==
    LET idx == IdxOf(peaks)
        pts == PyGet(peaks, PyStr("points")).items
        n == Cardinality({idx[i] : i \in 1..Len(idx)})
    IN  PyList([k \in 1..n |-> PyList(SelectSeq([i \in 1..Len(idx) |-> <<idx[i], pts[i]>>],
                                                LAMBDA x : x[1] = k - 1))])

\* the post-processing of recv raises: the peaks (IndexError), or a result
\* without metrics (KeyError)
PostRaises(k, result) ==
    \/ result.t # "dict"
    \/ ~PyHasKey(result, PyStr("metrics"))
    \/ k = "video" /\ PyHasKey(result, PyStr("peaks")) /\ PeaksRaise(PyGet(result, PyStr("peaks")))

\* TrackProcessor.recv: append every received point to the list of its key
RECURSIVE MergeTracks(_, _, _)
MergeTracks(acc, ks, xs) ==
    IF ks = <<>> THEN acc
    ELSE LET k == Head(ks)
             next == IF PyHasKey(acc, k)
                     THEN LET i == CHOOSE i \in 1..Len(acc.keys) : acc.keys[i] = k
                          IN  PyDict(acc.keys, [acc.items EXCEPT ![i] = PyList(Append(@.items, Head(xs)))])
                     ELSE PyDict(Append(acc.keys, k), Append(acc.items, PyList(<<Head(xs)>>)))
         IN  MergeTracks(next, Tail(ks), Tail(xs))

TracksAfter(result) ==
    IF PyHasKey(result, PyStr("tracks"))
    THEN LET points == PyGet(result, PyStr("tracks")) IN MergeTracks(tracks, points.keys, points.items)
    ELSE tracks

RecvCall(pending, entered, ret) ==
    [called |-> TRUE, pending |-> pending, entered |-> entered, ret |-> ret]

SendCalls == Len(SelectSeq(sent["client"], LAMBDA m : ~HasStop(m.val)))

\* `if not self._send_flag: return None`: VideoProcessor.recv has it,
\* TrackProcessor.recv has not
RecvReturnsNone(k, flag) == k = "video" /\ ~flag

\* send: the args, send_array, set the flag
Send(args) ==
    /\ cpc = "idle"
    /\ ~closed
    /\ SendCalls < MaxReq
    /\ LET data == IF kind = "video" THEN VideoData ELSE TrackData
       IN  /\ pipe' = [pipe EXCEPT !["server"] = send_array(@, args, data, Len(sent["client"]) + 1)]
           /\ sent' = [sent EXCEPT !["client"] = Append(@, [op |-> "array", val |-> args, arr |-> data])]
    /\ send_flag' = TRUE
    /\ last_call' = "send"
    /\ alternating' = (alternating /\ last_call # "send")
    /\ UNCHANGED <<created, recvd, got, kind, reset_flag, tracks, server_metrics, closed, cpc,
                   last_recv, stop_log, workerVars, trackerVars>>

\* recv, up to the call of recv_dict: return None when no send is pending
\* (VideoProcessor), else call recv_dict, which blocks until a message is
\* there and raises on a closed socket
RecvBegin ==
    /\ cpc \in {"idle", "stopped"}
    /\ last_call' = "recv"
    /\ alternating' = (alternating /\ last_call # "recv")
    /\ IF RecvReturnsNone(kind, send_flag)
       THEN /\ last_recv' = RecvCall(send_flag, FALSE, "None")
            /\ UNCHANGED cpc
       ELSE IF closed
            THEN /\ last_recv' = RecvCall(send_flag, TRUE, "raised")
                 /\ UNCHANGED cpc
            ELSE /\ last_recv' = RecvCall(send_flag, TRUE, "blocked")
                 /\ cpc' = "recv"
    /\ UNCHANGED <<chanVars, kind, send_flag, reset_flag, tracks, server_metrics, closed, stop_log,
                   workerVars, trackerVars>>

\* the receive of recv and what follows it: the peaks by frame, the tracks,
\* the server metrics, the flags
Receive(next_pc, log) ==
    LET r == recv_dict(pipe["client"])
    IN  /\ pipe' = [pipe EXCEPT !["client"] = r.rest]
        /\ got' = [got EXCEPT !["client"] = [op |-> "dict", val |-> r.val, arr |-> r.arr, err |-> r.err]]
        /\ recvd' = [recvd EXCEPT !["client"] = Append(@, [op |-> "dict", mids |-> Mids(r.used)])]
        /\ IF r.err \/ PostRaises(kind, r.val)
           THEN /\ last_recv' = RecvCall(last_recv.pending, TRUE, "raised")
                /\ cpc' = "idle"
                /\ stop_log' = log
                /\ UNCHANGED <<send_flag, reset_flag, tracks, server_metrics>>
           ELSE /\ last_recv' = RecvCall(last_recv.pending, TRUE, "dict")
                /\ tracks' = IF kind = "track" THEN TracksAfter(r.val) ELSE tracks
                /\ server_metrics' = PyGet(r.val, PyStr("metrics"))
                /\ send_flag' = FALSE
                /\ reset_flag' = IF kind = "track" THEN FALSE ELSE reset_flag
                /\ cpc' = next_pc
                /\ stop_log' = log

\* recv, from the return of recv_dict on
RecvEnd ==
    /\ cpc = "recv"
    /\ CanRecv("client")
    /\ Receive("idle", stop_log)
    /\ UNCHANGED <<created, sent, kind, closed, last_call, alternating, workerVars, trackerVars>>

\* TrackProcessor.reset_tracks
ResetTracks ==
    /\ kind = "track"
    /\ ~reset_flag \/ tracks # PyDict(<<>>, <<>>)
    /\ reset_flag' = TRUE
    /\ tracks' = PyDict(<<>>, <<>>)
    /\ UNCHANGED <<chanVars, kind, send_flag, server_metrics, closed, cpc, last_call, alternating,
                   last_recv, stop_log, workerVars, trackerVars>>

\* the stop request and close()
SendStopAndClose(fill, log) ==
    /\ pipe' = [pipe EXCEPT !["server"] =
                    send_array(@, StopArgs, StopData(kind, fill), Len(sent["client"]) + 1)]
    /\ sent' = [sent EXCEPT !["client"] =
                    Append(@, [op |-> "array", val |-> StopArgs, arr |-> StopData(kind, fill)])]
    /\ closed' = TRUE
    /\ stop_log' = log \o <<"send", "close">>
    /\ cpc' = "stop_term"

\* stop, up to its first blocking point: with a send pending it calls recv,
\* which blocks in recv_dict; else it sends the stop request and closes
StopBegin(fill) ==
    /\ cpc = "idle"
    /\ ~closed
    /\ IF send_flag
       THEN /\ cpc' = "stop_recv"
            /\ stop_log' = <<>>
            /\ last_recv' = RecvCall(send_flag, TRUE, "blocked")
            /\ UNCHANGED <<pipe, sent, closed>>
       ELSE /\ SendStopAndClose(fill, <<>>)
            /\ UNCHANGED last_recv
    /\ UNCHANGED <<created, recvd, got, kind, send_flag, reset_flag, tracks, server_metrics,
                   last_call, alternating, workerVars, trackerVars>>

\* stop, from the return of recv_dict on.  VideoProcessor: the rest of
\* recv, then the stop request and close.  TrackProcessor: recv is a
\* property, so `self.recv()` calls the dict the property returned, which
\* raises a TypeError.
StopRecvEnd(fill) ==
    /\ cpc = "stop_recv"
    /\ CanRecv("client")
    /\ LET r == recv_dict(pipe["client"])
           raised == r.err \/ PostRaises(kind, r.val) \/ kind = "track"
       IN  IF raised
           THEN /\ Receive("idle", <<"recv">>)
                /\ UNCHANGED <<sent, closed>>
           ELSE /\ got' = [got EXCEPT !["client"] = [op |-> "dict", val |-> r.val, arr |-> r.arr, err |-> r.err]]
                /\ recvd' = [recvd EXCEPT !["client"] = Append(@, [op |-> "dict", mids |-> Mids(r.used)])]
                /\ last_recv' = RecvCall(last_recv.pending, TRUE, "dict")
                /\ tracks' = tracks
                /\ server_metrics' = PyGet(r.val, PyStr("metrics"))
                /\ send_flag' = FALSE
                /\ reset_flag' = reset_flag
                /\ pipe' = [pipe EXCEPT !["client"] = r.rest,
                                        !["server"] = send_array(@, StopArgs, StopData(kind, fill),
                                                                 Len(sent["client"]) + 1)]
                /\ sent' = [sent EXCEPT !["client"] =
                                Append(@, [op |-> "array", val |-> StopArgs, arr |-> StopData(kind, fill)])]
                /\ closed' = TRUE
                /\ stop_log' = <<"recv", "send", "close">>
                /\ cpc' = "stop_term"
    /\ UNCHANGED <<created, kind, last_call, alternating, workerVars, trackerVars>>

\* stop, its last statement: terminate the worker's process
StopTerminate ==
    /\ cpc = "stop_term"
    /\ wpc' = IF wpc \in {"stopped", "failed"} THEN wpc ELSE "terminated"
    /\ stop_log' = Append(stop_log, "terminate")
    /\ cpc' = "stopped"
    /\ UNCHANGED <<chanVars, kind, send_flag, reset_flag, tracks, server_metrics, closed, last_call,
                   alternating, last_recv, metrics, wreq, nprocess, trackerVars>>

(***************************************************************************)
(* SpecProc: a Processor after its construction, and its worker.           *)
(***************************************************************************)
\* Processor.__init__ has started the worker and connected the client; the
\* worker has still to bind
InitProc ==
    /\ created = <<"client">>
    /\ pipe = [e \in Endpoints |-> <<>>]
    /\ sent = [e \in Endpoints |-> <<>>]
    /\ recvd = [e \in Endpoints |-> <<>>]
    /\ got = [e \in Endpoints |-> NoResult]
    /\ kind \in {"video", "track"}
    /\ send_flag = FALSE
    /\ reset_flag = FALSE
    /\ tracks = PyDict(<<>>, <<>>)
    /\ server_metrics = PyDict(<<>>, <<>>)
    /\ closed = FALSE
    /\ cpc = "idle"
    /\ last_call = "none"
    /\ alternating = TRUE
    /\ last_recv = NoRecvCall
    /\ stop_log = <<>>
    /\ wpc = "building"
    /\ metrics = NoMetrics
    /\ wreq = NoRequest
    /\ nprocess = 0
    /\ InitTrackerIdle

\* the args send builds
SendArgs ==
    IF kind = "video"
    THEN {VideoArgs(TRUE, FALSE), VideoArgs(FALSE, TRUE)}
    ELSE {TrackArgs(reset_flag)}

\* the worker serving the request it has received
Serve ==
    \E inp \in ProcessInputs(kind), rtype \in ResultTypes, cdur \in CompDurations,
       sdur \in SendDurations : W_Serve(inp, rtype, cdur, sdur)

WorkerStep ==
    \/ W_Build
    \/ \E dur \in RecvDurations : W_Recv(dur)
    \/ Serve

NextProc ==
    \/ \E args \in SendArgs : Send(args)
    \/ RecvBegin
    \/ RecvEnd
    \/ ResetTracks
    \/ \E fill \in FillSet : StopBegin(fill)
    \/ \E fill \in FillSet : StopRecvEnd(fill)
    \/ StopTerminate
    \/ WorkerStep

SpecProc == InitProc /\ [][NextProc]_vars

(***************************************************************************)
(* SpecProcAny: the same with the worker of any ProcessingServer, whose    *)
(* process may return a result of any type, and with a client that may add *)
(* `"stop": False` to the args of a request.                               *)
(***************************************************************************)
\* the args with the key "stop" added
WithStop(args, value) ==
    PyDict(Append(args.keys, PyStr("stop")), Append(args.items, PyBool(value)))

\* the args of the requests the worker may be sent
AnySendArgs == SendArgs \cup {WithStop(args, FALSE) : args \in SendArgs}

ServeAny ==
    \E inp \in ProcessInputs(kind), rtype \in AnyResultTypes, cdur \in CompDurations,
       sdur \in SendDurations : W_Serve(inp, rtype, cdur, sdur)

\* a request is one message of the client, whatever its args say
SendAny(args) == Len(sent["client"]) < MaxReq /\ Send(args)

NextProcAny ==
    \/ \E args \in AnySendArgs : SendAny(args)
    \/ RecvBegin
    \/ RecvEnd
    \/ ResetTracks
    \/ \E fill \in FillSet : StopBegin(fill)
    \/ \E fill \in FillSet : StopRecvEnd(fill)
    \/ StopTerminate
    \/ W_Build
    \/ \E dur \in RecvDurations : W_Recv(dur)
    \/ ServeAny

SpecProcAny == InitProc /\ [][NextProcAny]_vars

\* the worker's process keeps running until it exits or is killed: a request
\* it has received is served
SpecProcFair == SpecProc /\ WF_vars(Serve)

(***************************************************************************)
(* Claims about the worker loop and the Processor (SpecProc).              *)
(***************************************************************************)
\* the step is a receive of the worker
ServerReceives == Len(recvd'["server"]) = Len(recvd["server"]) + 1

\* the messages the worker has put on the wire for the client, received or
\* still in flight
MessagesToClient == Len(InFlight(pipe["client"])) + Len(recvd["client"])

\* C4: when the worker loop receives a buffer request whose args contain a
\* stop directive, it leaves the loop without calling process and without
\* sending anything to the client, and once it has left the loop it never
\* receives, processes or sends again.
C4_StopExitsLoop ==
    [][/\ (ServerReceives /\ ~got'["server"].err /\ HasStop(got'["server"].val)) =>
              /\ wpc' = "stopped"
              /\ nprocess' = nprocess
              /\ sent'["server"] = sent["server"]
              /\ pipe'["client"] = pipe["client"]
       /\ wpc = "stopped" =>
              /\ wpc' = "stopped"
              /\ recvd'["server"] = recvd["server"]
              /\ pipe'["server"] = pipe["server"]
              /\ nprocess' = nprocess
              /\ sent'["server"] = sent["server"]
              /\ Len(pipe'["client"]) <= Len(pipe["client"])]_vars

\* C4 witness: the worker has served a request and then left the loop on the
\* stop request, having answered the served request only
C4_Witness ==
    /\ wpc = "stopped"
    /\ HasStop(got["server"].val)
    /\ Len(recvd["server"]) = 2
    /\ nprocess = 1
    /\ MessagesToClient = 1

\* the worker's bookkeeping of a behaviour: one message to the client per
\* process call, each a single json frame, and one process call per request
\* received before the next request is received
ServedOncePerRequest ==
    /\ MessagesToClient = nprocess
    /\ \A i \in 1..Len(pipe["client"]) : pipe["client"][i].f = "json" /\ ~pipe["client"][i].more
    /\ wpc = "recv" => nprocess = Len(recvd["server"])
    /\ wpc \in {"process", "stopped"} => nprocess + 1 = Len(recvd["server"])

\* C5: for every request without a stop directive the worker receives (the
\* result of process is a dict), process is called exactly once and exactly
\* one dict message is sent to the client before the next request is
\* received; the worker eventually gets through process and the send, back
\* to the receive of the next request, unless its process is killed first.
C5_ServedOnce ==
    /\ []ServedOncePerRequest
    /\ (wpc = "process") ~> (wpc \in {"recv", "terminated"})

\* C5 witness: the worker has received two requests and answered each with
\* one dict message
C5_Witness ==
    /\ wpc = "recv"
    /\ Len(recvd["server"]) = 2
    /\ nprocess = 2
    /\ MessagesToClient = 2
    /\ ~HasStop(got["server"].val)

\* C6 as stated: for both processors, recv called while no send is pending
\* returns nothing and performs no receive on the channel; recv_dict is
\* entered only when a send is pending.
C6_RecvIdleIsNoop ==
    last_recv.called =>
        /\ ~last_recv.pending => (last_recv.ret = "None" /\ ~last_recv.entered)
        /\ last_recv.entered => last_recv.pending

\* C7 as stated: for both processors and from either state, a stop() call
\* that is over has performed, in this order, the receive of the pending
\* response if there was one, the send of the stop request, the close of
\* the channel and the termination of the worker.  (A stop() whose receive
\* raised while converting the response is left aside.)
C7_StopSequence ==
    (stop_log # <<>> /\ cpc \notin {"stop_recv", "stop_term"} /\ last_recv.ret # "raised") =>
        stop_log \in {<<"recv", "send", "close", "terminate">>, <<"send", "close", "terminate">>}

\* requests sent and not yet answered to the client
Outstanding == SendCalls - Len(recvd["client"])

\* C8 as stated: while the client alternates send and recv, at most one
\* request is outstanding and _send_flag is true exactly when one is.
C8_FlagIffOutstanding ==
    (alternating /\ ~closed /\ stop_log = <<>> /\ cpc \in {"idle", "recv"}) =>
        /\ Outstanding \in {0, 1}
        /\ send_flag <=> Outstanding = 1

(***************************************************************************)
(* The tracker: Track and Tracker.  The Kalman filter is left out: the     *)
(* distance of a detection to a track's estimate is an input of update.    *)
(***************************************************************************)
MaxOps == 9           \* Track operations in one behaviour of SpecTrack

MaxCycles == 4        \* update calls in one behaviour of SpecTracker

MaxFollow == 9        \* update calls in one behaviour of SpecFollow

MaxDet == 2           \* detections given to one update call

MaxTracks == 2        \* live tracks after an update call

PointsCount == 2      \* points of the detections of SpecTrack

\* TrackProcessingServer.build: Tracker(..., distance_threshold=20)
DistanceThreshold == 20

\* (min_drop_life, max_drop_life): two short lives, and the defaults of
\* Tracker
Configs == {<<1, 2>>, <<2, 5>>, <<10, 25>>}

\* the distances of a detection to a track: below, at and above the threshold
DistSet == {0, DistanceThreshold - 1, DistanceThreshold, DistanceThreshold + 1}

\* the floats that are not numbers of the model: infinities, which compare
\* as floats do, and nan, a code that IsNaN tells apart and for which every
\* comparison is false
PosInf == 1000000

NegInf == 0 - PosInf

NaN == 0 - 1

IsNaN(x) == x = NaN

IsInf(x) == x \in {PosInf, NegInf}

\* x > y on floats
Gt(x, y) == ~IsNaN(x) /\ ~IsNaN(y) /\ x > y

\* what distance_function may return besides a distance
SpecialDists == {NaN, PosInf, NegInf}

\* a Detection without confidence, and one whose confidence passes the
\* threshold at the points of mask
NoConfidence == [given |-> FALSE, mask |-> <<>>]

Confidence(mask) == [given |-> TRUE, mask |-> mask]

\* the shapes of the points a Detection is built from: a row of the [n x 2]
\* array TrackProcessingServer.process walks through, a 1 x 2 array, and
\* three shapes that are not [n x 2]
RowShape == <<2>>

PointShapes == {RowShape, <<1, 2>>, <<3>>, <<1, 3>>, <<2, 1>>}

\* Detection.__init__: the points are stored as they come, nothing is checked
Detection(shape) == [points |-> shape, raised |-> FALSE]

\* validate_points_shape on points of the given shape: (2,) becomes 1 x 2;
\* for another shape, shape[1] raises IndexError when there is one
\* dimension only, and AssertionError is raised when the second dimension
\* is not 2 or there are more than two dimensions
validate_points_shape(shape) ==
    IF shape = RowShape THEN [raised |-> FALSE, shape |-> <<1, 2>>]
    ELSE IF Len(shape) < 2 THEN [raised |-> TRUE, shape |-> shape]
    ELSE IF shape[2] # 2 \/ Len(shape) > 2 THEN [raised |-> TRUE, shape |-> shape]
    ELSE [raised |-> FALSE, shape |-> shape]

\* Track.__init__ with detection_count starting at min_drop_life
Track_without_grace(n, mn, mx) ==
    LET lo == mn \div 4
        hi == (mx + 3) \div 4
    IN  [age |-> 0,
         points_count |-> n,
         min_drop_life |-> mn,
         max_drop_life |-> mx,
         point_min_drop_life |-> lo,
         point_max_drop_life |-> IF hi - lo < 1 THEN lo + 1 ELSE hi,
         detection_count |-> mn,
         point_detection_count |-> [i \in 1..n |-> lo],
         initializing_flag |-> TRUE,
         id |-> 0,
         detected_at_least_once_points |-> [i \in 1..n |-> FALSE],
         velocity |-> [i \in 1..n |-> "zero"]]

\* Track.__init__ for a detection of n points
Track(n, mn, mx) ==
    LET lo == mn \div 4
        hi == (mx + 3) \div 4
    IN  [age |-> 0,
         points_count |-> n,
         min_drop_life |-> mn,
         max_drop_life |-> mx,
         point_min_drop_life |-> lo,
         point_max_drop_life |-> IF hi - lo < 1 THEN lo + 1 ELSE hi,
         detection_count |-> mn + 1,
         point_detection_count |-> [i \in 1..n |-> lo],
         initializing_flag |-> TRUE,
         id |-> 0,
         detected_at_least_once_points |-> [i \in 1..n |-> FALSE],
         velocity |-> [i \in 1..n |-> "zero"]]

\* Track.tracker_step without the decrement of detection_count
tracker_step_no_decay(t) ==
    [t EXCEPT !.point_detection_count = [i \in 1..t.points_count |-> @[i] - 1],
              !.age = @ + 1]

\* Track.tracker_step
tracker_step(t) ==
    [t EXCEPT !.detection_count = @ - 1,
              !.point_detection_count = [i \in 1..t.points_count |-> @[i] - 1],
              !.age = @ + 1]

\* Track.initializing with the midpoint replaced by min_drop_life
initializing_above_min(t, count) ==
    IF t.initializing_flag /\ t.detection_count > t.min_drop_life
    THEN [track |-> [t EXCEPT !.initializing_flag = FALSE, !.id = count + 1], count |-> count + 1]
    ELSE [track |-> t, count |-> count]

\* Track.initializing without the increment of Track.count
initializing_same_count(t, count) ==
    IF t.initializing_flag /\ 2 * t.detection_count > t.min_drop_life + t.max_drop_life
    THEN [track |-> [t EXCEPT !.initializing_flag = FALSE, !.id = count + 1], count |-> count]
    ELSE [track |-> t, count |-> count]

\* the property Track.initializing, read with Track.count = count: the
\* track and the count after the read; the value read is the flag of the
\* track after it
initializing(t, count) ==
    IF t.initializing_flag /\ 2 * t.detection_count > t.min_drop_life + t.max_drop_life
    THEN [track |-> [t EXCEPT !.initializing_flag = FALSE, !.id = count + 1], count |-> count + 1]
    ELSE [track |-> t, count |-> count]

\* has_momentum as its docstring has it: higher than min_drop_life
has_momentum_strict(t) == t.detection_count > t.min_drop_life

\* the property Track.has_momentum
has_momentum(t) == t.detection_count >= t.min_drop_life


\* Track.add without `point_detection_count[point_detection_count < 0] = 0`
add_without_floor(t, conf) ==
    LET sel == IF conf.given THEN conf.mask ELSE [i \in 1..t.points_count |-> TRUE]
        raised == [i \in 1..t.points_count |->
                       t.point_detection_count[i] + (IF sel[i] THEN 2 ELSE 0)]
        cut == [i \in 1..t.points_count |->
                    IF raised[i] >= t.point_max_drop_life THEN t.point_max_drop_life ELSE raised[i]]
    IN  [t EXCEPT !.detection_count = IF @ < t.max_drop_life THEN @ + 2 ELSE @,
                  !.point_detection_count = cut,
                  !.detected_at_least_once_points = [i \in 1..t.points_count |-> @[i] \/ sel[i]],
                  !.velocity = [i \in 1..t.points_count |->
                                   IF t.detected_at_least_once_points[i] THEN "updated"
                                   ELSE "zero"]]


\* Track.add with detected_at_least_once_points set to the mask of this add
add_flags_overwritten(t, conf) ==
    LET sel == IF conf.given THEN conf.mask ELSE [i \in 1..t.points_count |-> TRUE]
        raised == [i \in 1..t.points_count |->
                       t.point_detection_count[i] + (IF sel[i] THEN 2 ELSE 0)]
        cut == [i \in 1..t.points_count |->
                    IF raised[i] >= t.point_max_drop_life THEN t.point_max_drop_life ELSE raised[i]]
    IN  [t EXCEPT !.detection_count = IF @ < t.max_drop_life THEN @ + 2 ELSE @,
                  !.point_detection_count = [i \in 1..t.points_count |-> IF cut[i] < 0 THEN 0 ELSE cut[i]],
                  !.detected_at_least_once_points = sel,
                  !.velocity = [i \in 1..t.points_count |->
                                   IF t.detected_at_least_once_points[i] THEN "updated"
                                   ELSE "zero"]]


\* Track.add with the velocities set to zero after the update of
\* detected_at_least_once_points
add_zeroing_last(t, conf) ==
    LET sel == IF conf.given THEN conf.mask ELSE [i \in 1..t.points_count |-> TRUE]
        raised == [i \in 1..t.points_count |->
                       t.point_detection_count[i] + (IF sel[i] THEN 2 ELSE 0)]
        cut == [i \in 1..t.points_count |->
                    IF raised[i] >= t.point_max_drop_life THEN t.point_max_drop_life ELSE raised[i]]
    IN  [t EXCEPT !.detection_count = IF @ < t.max_drop_life THEN @ + 2 ELSE @,
                  !.point_detection_count = [i \in 1..t.points_count |-> IF cut[i] < 0 THEN 0 ELSE cut[i]],
                  !.detected_at_least_once_points = [i \in 1..t.points_count |-> @[i] \/ sel[i]],
                  !.velocity = [i \in 1..t.points_count |->
                                   IF t.detected_at_least_once_points[i] \/ sel[i] THEN "updated"
                                   ELSE "zero"]]

\* Track.add.  velocity[i]: the velocity of point i in filter.x, "zero" as
\* setup_filter and the assignment at the end of add leave it, "updated"
\* as filter.update computed it; filter.predict leaves the velocities as
\* they are (the rows of F for them are those of the identity)
add(t, conf) ==
    LET sel == IF conf.given THEN conf.mask ELSE [i \in 1..t.points_count |-> TRUE]
        raised == [i \in 1..t.points_count |->
                       t.point_detection_count[i] + (IF sel[i] THEN 2 ELSE 0)]
        cut == [i \in 1..t.points_count |->
                    IF raised[i] >= t.point_max_drop_life THEN t.point_max_drop_life ELSE raised[i]]
    IN  [t EXCEPT !.detection_count = IF @ < t.max_drop_life THEN @ + 2 ELSE @,
                  !.point_detection_count = [i \in 1..t.points_count |-> IF cut[i] < 0 THEN 0 ELSE cut[i]],
                  !.detected_at_least_once_points = [i \in 1..t.points_count |-> @[i] \/ sel[i]],
                  !.velocity = [i \in 1..t.points_count |->
                                   IF t.detected_at_least_once_points[i] THEN "updated"
                                   ELSE "zero"]]

MinOf(S) == CHOOSE x \in S : \A y \in S : x <= y

\* the loop of Tracker.match without the blanking of the column
RECURSIVE match_loop_row_only(_, _, _, _)
match_loop_row_only(m, nd, nt, pairs) ==
    LET cells == (1..nd) \X (1..nt)
        current_min == MinOf({m[c[1]][c[2]] : c \in cells})
    IN  IF current_min < DistanceThreshold
        THEN LET flattened_arg_min ==
                     MinOf({(c[1] - 1) * nt + (c[2] - 1) :
                                c \in {q \in cells : m[q[1]][q[2]] = current_min}})
                 det_idx == (flattened_arg_min \div nt) + 1
                 track_idx == (flattened_arg_min % nt) + 1
                 blanked == [d \in 1..nd |-> [t \in 1..nt |->
                                IF d = det_idx THEN DistanceThreshold + 1 ELSE m[d][t]]]
             IN  match_loop_row_only(blanked, nd, nt, Append(pairs, <<det_idx, track_idx>>))
        ELSE pairs

\* the loop of Tracker.match on an nd x nt matrix: take the smallest entry
\* while it is below the threshold (argmin: the first in row-major order),
\* then blank its row and its column
RECURSIVE match_loop(_, _, _, _)
match_loop(m, nd, nt, pairs) ==
    LET cells == (1..nd) \X (1..nt)
        current_min == MinOf({m[c[1]][c[2]] : c \in cells})
    IN  IF current_min < DistanceThreshold
        THEN LET flattened_arg_min ==
                     MinOf({(c[1] - 1) * nt + (c[2] - 1) :
                                c \in {q \in cells : m[q[1]][q[2]] = current_min}})
                 det_idx == (flattened_arg_min \div nt) + 1
                 track_idx == (flattened_arg_min % nt) + 1
                 blanked == [d \in 1..nd |-> [t \in 1..nt |->
                                IF d = det_idx \/ t = track_idx THEN DistanceThreshold + 1
                                ELSE m[d][t]]]
             IN  match_loop(blanked, nd, nt, Append(pairs, <<det_idx, track_idx>>))
        ELSE pairs

\* Tracker.match: the matched (detection, track) index pairs, in match order
match(m, nd, nt) == IF nd * nt > 0 THEN match_loop(m, nd, nt, <<>>) ELSE <<>>

\* the distance matrix with a distance at or above the threshold stored as
\* the threshold minus one
ClippedDistanceMatrix(P, dets, dist) ==
    [a \in 1..Len(dets) |-> [b \in 1..Len(P) |->
        IF dist[dets[a]][P[b]] >= DistanceThreshold THEN DistanceThreshold - 1
        ELSE dist[dets[a]][P[b]]]]

\* the distance matrix of update_tracks for the detections dets and the
\* tracks at the positions P: a distance above the threshold is stored as
\* the threshold plus one (the distances of the model are whole numbers,
\* which the float32 matrix stores unchanged)
DistanceMatrix(P, dets, dist) ==
    [a \in 1..Len(dets) |-> [b \in 1..Len(P) |->
        IF Gt(dist[dets[a]][P[b]], DistanceThreshold) THEN DistanceThreshold + 1
        ELSE dist[dets[a]][P[b]]]]

\* np.isnan(distance_matrix).any() or np.isinf(distance_matrix).any():
\* update_tracks raises ValueError
MatrixRaises(m) ==
    \E a \in 1..Len(m) : \E b \in 1..Len(m[a]) : IsNaN(m[a][b]) \/ IsInf(m[a][b])

\* Tracker.update_tracks.  objs: the live tracks; P: the positions in objs
\* of the tracks given to the call; dets: the detections given to it, by
\* number; confs[d]: the confidence of detection d; dist[d][i]: the value of
\* distance_function for detection d and objs[i].  Returns the tracks after
\* the call, the unmatched detections and, in the order of the calls of
\* Track.add, the pairs fused: the detection, the position of the track in
\* objs and the value of distance_function for them; asked: the values
\* distance_function returned during the call; raised: the call raised
\* ValueError.
update_tracks(objs, P, dets, confs, dist) ==
    IF Len(dets) > 0
    THEN LET nd == Len(dets)
             nt == Len(P)
             distance_matrix == DistanceMatrix(P, dets, dist)
             asked == {dist[dets[a]][P[b]] : a \in 1..nd, b \in 1..nt}
             pairs == match(distance_matrix, nd, nt)
             accepted == {k \in 1..Len(pairs) :
                              distance_matrix[pairs[k][1]][pairs[k][2]] < DistanceThreshold}
             kept == SelectSeq([a \in 1..nd |-> a],
                               LAMBDA a : \A k \in 1..Len(pairs) : pairs[k][1] # a)
             refused == SelectSeq(pairs, LAMBDA pr :
                                      ~(distance_matrix[pr[1]][pr[2]] < DistanceThreshold))
         IN  IF MatrixRaises(distance_matrix)
             THEN [objs |-> objs, unmatched |-> <<>>, fused |-> <<>>, asked |-> asked,
                   raised |-> TRUE]
             ELSE IF Len(pairs) > 0
             THEN [objs |-> [i \in 1..Len(objs) |->
                                IF \E k \in accepted : P[pairs[k][2]] = i
                                THEN LET k == CHOOSE k \in accepted : P[pairs[k][2]] = i
                                     IN  add(objs[i], confs[dets[pairs[k][1]]])
                                ELSE objs[i]],
                   unmatched |-> [k \in 1..Len(kept) |-> dets[kept[k]]]
                                 \o [k \in 1..Len(refused) |-> dets[refused[k][1]]],
                   fused |-> LET taken == SelectSeq(pairs, LAMBDA pr :
                                              distance_matrix[pr[1]][pr[2]] < DistanceThreshold)
                             IN  [k \in 1..Len(taken) |->
                                     [det |-> dets[taken[k][1]],
                                      track |-> P[taken[k][2]],
                                      distance |-> dist[dets[taken[k][1]]][P[taken[k][2]]]]],
                   asked |-> asked,
                   raised |-> FALSE]
             ELSE [objs |-> objs, unmatched |-> dets, fused |-> <<>>, asked |-> asked,
                   raised |-> FALSE]
    ELSE [objs |-> objs, unmatched |-> <<>>, fused |-> <<>>, asked |-> {}, raised |-> FALSE]

\* the list comprehension without the reads of the property
read_none(done, rest, count) == [objs |-> done \o rest, count |-> count]

\* `[o for o in objs if (not) o.initializing]`: the property is read on
\* every track in list order; the tracks and Track.count after the reads
RECURSIVE read_all(_, _, _)
read_all(done, rest, count) ==
    IF rest = <<>> THEN [objs |-> done, count |-> count]
    ELSE LET r == initializing(Head(rest), count)
         IN  read_all(Append(done, r.track), Tail(rest), r.count)

\* both lists of update made of all the tracks
Positions_of_all(objs, flag) == [i \in 1..Len(objs) |-> i]

\* the positions of the tracks whose flag is `flag`
Positions(objs, flag) ==
    SelectSeq([i \in 1..Len(objs) |-> i], LAMBDA i : objs[i].initializing_flag = flag)

\* the ids that the reads of `initializing` on the list `before` assigned,
\* in the order of the reads; `after` is the list after the reads
ids_assigned(before, after) ==
    LET got_id == SelectSeq([i \in 1..Len(before) |-> i],
                            LAMBDA i : before[i].id = 0 /\ after[i].id # 0)
    IN  [k \in 1..Len(got_id) |-> after[got_id[k]].id]

\* F(v), with v computed once
Then(v, F(_)) == CHOOSE y \in {F(x) : x \in {v}} : TRUE

\* Tracker.update for the detections 1..Len(confs): the live tracks,
\* Track.count and the returned tracks after the call, with the ids
\* assigned during the call and the pairs fused by its two update_tracks
\* calls, the values distance_function returned and whether the call raised
\* the ValueError of update_tracks (the tracker is then left as the steps
\* before the raise made it); of an update that did not raise also:
\* settled, the positions of the tracks that were not initializing when the
\* first update_tracks was called; starting, the positions of those that
\* were initializing when the second was; below, the pairs of a detection and such
\* a track for which distance_function returned less than the threshold;
\* spawned, the new tracks as Track.__init__ made them, each with its
\* detection; and of every update early, the number of ids the reads of the
\* two lists (r1, r2) assigned.  In turn: prune and
\* step (stepped), the reads of the first list (r1), update_tracks on the
\* initialized tracks (u1), the reads of the second list (r2), update_tracks
\* on the initializing tracks (u2), the new tracks and the reads of the
\* returned list (r3).
update(objs, count, mn, mx, confs, dist) ==
    LET live == SelectSeq(objs, has_momentum)
        stepped == [i \in 1..Len(live) |-> tracker_step(live[i])]
    IN  Then(read_all(<<>>, stepped, count), LAMBDA r1 :
        Then(update_tracks(r1.objs, Positions(r1.objs, FALSE), [d \in 1..Len(confs) |-> d],
                           confs, dist), LAMBDA u1 :
        IF u1.raised
        THEN [objs |-> r1.objs, count |-> r1.count, returned |-> <<>>,
              assigned |-> ids_assigned(stepped, r1.objs),
              fused |-> <<<<>>, <<>>>>, asked |-> u1.asked, raised |-> TRUE,
              settled |-> {}, starting |-> {}, below |-> {}, spawned |-> <<>>,
              early |-> Len(ids_assigned(stepped, r1.objs))]
        ELSE
        Then(read_all(<<>>, u1.objs, r1.count), LAMBDA r2 :
        Then(update_tracks(r2.objs, Positions(r2.objs, TRUE), u1.unmatched, confs, dist),
             LAMBDA u2 :
        IF u2.raised
        THEN [objs |-> r2.objs, count |-> r2.count, returned |-> <<>>,
              assigned |-> ids_assigned(stepped, r1.objs) \o ids_assigned(u1.objs, r2.objs),
              fused |-> <<u1.fused, <<>>>>, asked |-> u1.asked \cup u2.asked, raised |-> TRUE,
              settled |-> {}, starting |-> {}, below |-> {}, spawned |-> <<>>,
              early |-> Len(ids_assigned(stepped, r1.objs) \o ids_assigned(u1.objs, r2.objs))]
        ELSE
        Then(u2.objs \o [k \in 1..Len(u2.unmatched) |-> Track(1, mn, mx)], LAMBDA spawned :
        Then(read_all(<<>>, spawned, r2.count), LAMBDA r3 :
            [objs |-> r3.objs, count |-> r3.count,
             returned |-> SelectSeq(r3.objs, LAMBDA o : ~o.initializing_flag),
             assigned |-> ids_assigned(stepped, r1.objs) \o ids_assigned(u1.objs, r2.objs)
                              \o ids_assigned(spawned, r3.objs),
             fused |-> <<u1.fused, u2.fused>>,
             asked |-> u1.asked \cup u2.asked,
             raised |-> FALSE,
             settled |-> {i \in 1..Len(r1.objs) : ~r1.objs[i].initializing_flag},
             starting |-> {i \in 1..Len(r2.objs) : r2.objs[i].initializing_flag},
             below |-> {c \in (1..Len(confs)) \X (1..Len(r1.objs)) :
                           /\ ~r1.objs[c[2]].initializing_flag
                           /\ dist[c[1]][c[2]] < DistanceThreshold},
             spawned |-> [k \in 1..Len(u2.unmatched) |->
                             [det |-> u2.unmatched[k],
                              track |-> spawned[Len(u2.objs) + k]]],
             early |-> Len(ids_assigned(stepped, r1.objs)
                               \o ids_assigned(u1.objs, r2.objs))]))))))

(***************************************************************************)
(* SpecTracker: a Tracker as TrackProcessingServer uses it, its update     *)
(* called with detections of one point and no confidence.                  *)
(***************************************************************************)
InitTracker ==
    /\ InitChanVars
    /\ InitProcIdle
    /\ \E c \in Configs : min_drop_life = c[1] /\ max_drop_life = c[2]
    /\ tracked_objects = <<>>
    /\ track_count = 0
    /\ ncalls = 0
    /\ last_op = NoOp
    /\ id_log = <<>>

\* the tracks that get through the pruning of the next update
NLive == Len(SelectSeq(tracked_objects, has_momentum))

\* the update call made last: its number of detections, the pairs its two
\* update_tracks calls fused and the tracks it returned.  follow counts the
\* updates in a row that fused their single detection, since an update that
\* found the tracker empty and had a single detection (-1: no such run);
\* idle counts the updates in a row that fused nothing since such an update.
\* settled, starting, below, spawned, early: as update reports them.
\* quiet counts the updates in a row, up to this one, that fused nothing;
\* base: the detection_count of each live track at the end of the update
\* before them (of no track before the first update of a tracker).
\* reset: the request of the update had reset = true; had: the number of
\* tracks of the tracker that request replaced.
\* An update that raised is recorded as "raised"; asked: the values that are
\* not numbers among those distance_function returned to the update;
\* passed: the Detection objects given to the update; compared: those
\* distance_function was called with.
Updated(nd, r) ==
    [op |-> IF r.raised THEN "raised" ELSE "update",
     nd |-> nd, fused |-> r.fused, returned |-> r.returned,
     asked |-> r.asked \cap SpecialDists,
     passed |-> IF nd > 0 THEN {Detection(RowShape)} ELSE {},
     compared |-> IF r.asked # {} THEN {Detection(RowShape)} ELSE {},
     reset |-> FALSE, had |-> 0,
     settled |-> r.settled, starting |-> r.starting,
     below |-> r.below, spawned |-> r.spawned,
     early |-> r.early,
     follow |-> IF r.raised THEN -1
                ELSE IF nd = 1 /\ tracked_objects = <<>> THEN 0
                ELSE IF last_op.follow >= 0 /\ nd = 1
                        /\ Len(r.fused[1]) + Len(r.fused[2]) = 1
                     THEN last_op.follow + 1
                     ELSE -1,
     idle |-> IF r.raised THEN -1
              ELSE IF nd = 1 /\ tracked_objects = <<>> THEN 0
              ELSE IF last_op.idle >= 0 /\ Len(r.fused[1]) + Len(r.fused[2]) = 0
                   THEN last_op.idle + 1
                   ELSE -1,
     quiet |-> IF r.raised THEN -1
               ELSE IF Len(r.fused[1]) + Len(r.fused[2]) = 0 THEN last_op.quiet + 1
               ELSE 0,
     base |-> IF ~r.raised /\ Len(r.fused[1]) + Len(r.fused[2]) = 0 THEN last_op.base
              ELSE [i \in 1..Len(r.objs) |-> r.objs[i].detection_count]]

\* tracker.update(detections) with nd detections at the distances dist.
\* TrackProcessingServer.process does not catch the ValueError of an update
\* and run calls process outside its try blocks: the worker dies with it
\* and the tracker is not used again.
UpdateCall(nd, dist) ==
    /\ last_op.op # "raised"
    /\ \E r \in {update(tracked_objects, track_count, min_drop_life, max_drop_life,
                       [d \in 1..nd |-> NoConfidence], dist)} :
           /\ Len(r.objs) <= MaxTracks
           /\ tracked_objects' = r.objs
           /\ track_count' = r.count
           /\ id_log' = id_log \o r.assigned
           /\ last_op' = Updated(nd, r)
    /\ ncalls' = ncalls + 1
    /\ UNCHANGED <<min_drop_life, max_drop_life, chanVars, procVars>>

Update(nd, dist) == ncalls < MaxCycles /\ UpdateCall(nd, dist)

\* the distances of nd detections to nt tracks of which one is not a number
\* of the model, the others being all near or all far
SpecialMatrices(nd, nt) ==
    {[d \in 1..nd |-> [t \in 1..nt |-> IF <<d, t>> = c THEN v ELSE w]] :
        c \in (1..nd) \X (1..nt), v \in SpecialDists, w \in {0, DistanceThreshold + 1}}

NextTracker ==
    \/ \E nd \in 0..MaxDet : \E dist \in [1..nd -> [1..NLive -> DistSet]] : Update(nd, dist)
    \/ \E nd \in 1..MaxDet : \E dist \in SpecialMatrices(nd, NLive) : Update(nd, dist)

SpecTracker == InitTracker /\ [][NextTracker]_vars

(***************************************************************************)
(* SpecMatch: one call of Tracker.match on a matrix update_tracks can hand *)
(* it: up to MaxDet rows and MaxTracks columns of distances at most        *)
(* distance_threshold + 1.                                                 *)
(***************************************************************************)
\* self.match(distance_matrix) for an nd x nt matrix m
Match(nd, nt, m) ==
    /\ last_op = NoOp
    /\ last_op' = [op |-> "match", nd |-> nd, nt |-> nt, m |-> m, pairs |-> match(m, nd, nt)]
    /\ UNCHANGED <<min_drop_life, max_drop_life, tracked_objects, track_count, ncalls, id_log,
                   chanVars, procVars>>

NextMatch ==
    \E nd \in 0..MaxDet, nt \in 0..MaxTracks :
        \E m \in [1..nd -> [1..nt -> DistSet]] : Match(nd, nt, m)

InitMatch == InitChanVars /\ InitProcIdle /\ InitTrackerIdle

SpecMatch == InitMatch /\ [][NextMatch]_vars

(***************************************************************************)
(* SpecShared: the Tracker next to another Tracker of the same process.    *)
(* Track.count is an attribute of the class Track: every Tracker of the    *)
(* process reads and writes the one counter.                               *)
(***************************************************************************)
\* Tracker(...) called for another tracker: `Track.count = 0`
OtherTracker ==
    /\ track_count' = 0
    /\ UNCHANGED <<min_drop_life, max_drop_life, tracked_objects, ncalls, last_op, id_log,
                   chanVars, procVars>>

\* update of another tracker in which one of its tracks is read as
\* initialized: `Track.count += 1`
OtherUpdate ==
    /\ track_count < MaxCycles
    /\ track_count' = track_count + 1
    /\ UNCHANGED <<min_drop_life, max_drop_life, tracked_objects, ncalls, last_op, id_log,
                   chanVars, procVars>>

NextShared ==
    \/ \E nd \in 0..1 : \E dist \in [1..nd -> [1..NLive -> DistSet]] : Update(nd, dist)
    \/ OtherTracker
    \/ OtherUpdate

SpecShared == InitTracker /\ [][NextShared]_vars

(***************************************************************************)
(* SpecFollow: the Tracker of TrackProcessingServer (default lives) over   *)
(* longer runs of updates that carry at most one detection.                *)
(***************************************************************************)
InitFollow == InitChanVars /\ InitProcIdle /\ InitTrackerIdle

FollowUpdate(nd, dist) == ncalls < MaxFollow /\ UpdateCall(nd, dist)

\* process builds a Detection from points of a shape validate_points_shape
\* refuses and calls update with it.  update prunes, steps and builds the
\* list of its first pass; distance_function is called with the detection
\* for the live tracks, if any; then the subtraction in centroid_distance,
\* Track.add or Track.__init__ (both call validate_points_shape first)
\* raises, before any track is changed or added.
FollowRefused(shape) ==
    /\ ncalls < MaxFollow
    /\ last_op.op # "raised"
    /\ ~Detection(shape).raised
    /\ validate_points_shape(Detection(shape).points).raised
    /\ \E r \in {update(tracked_objects, track_count, min_drop_life, max_drop_life,
                       <<>>, <<>>)} :
           /\ tracked_objects' = r.objs
           /\ track_count' = r.count
           /\ id_log' = id_log \o r.assigned
           /\ last_op' = [Updated(1, [r EXCEPT !.raised = TRUE]) EXCEPT
                              !.passed = {Detection(shape)},
                              !.compared = IF r.objs # <<>> THEN {Detection(shape)} ELSE {}]
    /\ ncalls' = ncalls + 1
    /\ UNCHANGED <<min_drop_life, max_drop_life, chanVars, procVars>>

\* Tracker.__init__ as process calls it: no tracks, Track.count = 0
NewTracker == [objs |-> <<>>, count |-> 0]

\* process without the test of args["reset"]
process_tracker_kept(reset) == [objs |-> tracked_objects, count |-> track_count]

\* the tracker process updates: `if args["reset"] == True: self._tracker =
\* Tracker(...)`
process_tracker(reset) ==
    IF reset THEN NewTracker ELSE [objs |-> tracked_objects, count |-> track_count]

\* process(data, args) with args["reset"] = True and nd rows of data: the
\* new tracker has no track for a detection to be compared with.  id_log
\* follows the tracker in use and starts again with the new one.
ProcessReset(nd) ==
    /\ ncalls < MaxFollow
    /\ last_op.op # "raised"
    /\ \E r \in {update(process_tracker(TRUE).objs, process_tracker(TRUE).count,
                       10, 25, [d \in 1..nd |-> NoConfidence], [d \in 1..nd |-> <<>>])} :
           /\ tracked_objects' = r.objs
           /\ track_count' = r.count
           /\ id_log' = (IF process_tracker(TRUE) = NewTracker THEN <<>> ELSE id_log)
                             \o r.assigned
           /\ last_op' = [Updated(nd, r) EXCEPT
                              !.reset = TRUE,
                              !.had = Len(tracked_objects),
                              !.follow = IF nd = 1 THEN 0 ELSE -1,
                              !.idle = IF nd = 1 THEN 0 ELSE -1,
                              !.quiet = 0,
                              !.base = [i \in 1..Len(r.objs) |-> r.objs[i].detection_count]]
    /\ min_drop_life' = 10
    /\ max_drop_life' = 25
    /\ ncalls' = ncalls + 1
    /\ UNCHANGED <<chanVars, procVars>>

NextFollow ==
    \/ \E nd \in 0..1 : \E dist \in [1..nd -> [1..NLive -> DistSet]] : FollowUpdate(nd, dist)
    \/ \E shape \in PointShapes : FollowRefused(shape)
    \/ \E nd \in 0..1 : ProcessReset(nd)

SpecFollow == InitFollow /\ [][NextFollow]_vars

(***************************************************************************)
(* SpecTrack: one Track and the operations of its class.                   *)
(***************************************************************************)
\* the confidences of a detection of PointsCount points
ConfSet == {NoConfidence} \cup {Confidence(m) : m \in [1..PointsCount -> BOOLEAN]}

\* the lives of the track: those of Configs, and lives whose quarters leave
\* no room between the point-level minimum and maximum
TrackConfigs == Configs \cup {<<4, 4>>}

InitTrack ==
    /\ InitChanVars
    /\ InitProcIdle
    /\ \E c \in TrackConfigs :
           /\ min_drop_life = c[1]
           /\ max_drop_life = c[2]
           /\ tracked_objects = <<Track(PointsCount, c[1], c[2])>>
    /\ track_count = 0
    /\ ncalls = 0
    /\ last_op = NoOp
    /\ id_log = <<>>

\* the operation called last, with the detection_count and the
\* initializing_flag it found
Did(op) == [op |-> op, dc |-> tracked_objects[1].detection_count,
            flag |-> tracked_objects[1].initializing_flag]

\* an add, with the confidence of its detection and the track it found
Added(conf) ==
    [op |-> "add", dc |-> tracked_objects[1].detection_count,
     flag |-> tracked_objects[1].initializing_flag,
     conf |-> conf, before |-> tracked_objects[1]]

\* track.tracker_step()
T_Step ==
    /\ ncalls < MaxOps
    /\ tracked_objects' = <<tracker_step(tracked_objects[1])>>
    /\ last_op' = Did("tracker_step")
    /\ ncalls' = ncalls + 1
    /\ UNCHANGED <<min_drop_life, max_drop_life, track_count, id_log, chanVars, procVars>>

\* track.add(detection)
T_Add(conf) ==
    /\ ncalls < MaxOps
    /\ tracked_objects' = <<add(tracked_objects[1], conf)>>
    /\ last_op' = Added(conf)
    /\ ncalls' = ncalls + 1
    /\ UNCHANGED <<min_drop_life, max_drop_life, track_count, id_log, chanVars, procVars>>

\* a read of track.initializing
T_Read ==
    /\ ncalls < MaxOps
    /\ LET r == initializing(tracked_objects[1], track_count)
       IN  /\ tracked_objects' = <<r.track>>
           /\ track_count' = r.count
           /\ id_log' = id_log \o ids_assigned(tracked_objects, <<r.track>>)
    /\ last_op' = Did("initializing")
    /\ ncalls' = ncalls + 1
    /\ UNCHANGED <<min_drop_life, max_drop_life, chanVars, procVars>>

NextTrack ==
    \/ T_Step
    \/ \E conf \in ConfSet : T_Add(conf)
    \/ T_Read

SpecTrack == InitTrack /\ [][NextTrack]_vars

(***************************************************************************)
(* Claims about the tracker.                                               *)
(***************************************************************************)
\* C9 as stated: in every reachable state of a Tracker, every live track
\* has 0 <= detection_count <= max_drop_life.
C9_CountInRange ==
    \A i \in 1..Len(tracked_objects) :
        /\ 0 <= tracked_objects[i].detection_count
        /\ tracked_objects[i].detection_count <= max_drop_life

\* C10 as stated: tracker_step lowers detection_count by exactly 1, and add
\* sets it to min(detection_count + 2, max_drop_life), whatever the points
\* that pass the confidence threshold.
C10_StepAndAdd ==
    LET dc == tracked_objects[1].detection_count
    IN  /\ last_op.op = "tracker_step" => dc = last_op.dc - 1
        /\ last_op.op = "add" =>
               dc = IF last_op.dc + 2 <= max_drop_life THEN last_op.dc + 2 ELSE max_drop_life

\* C11: a track leaves the initializing state exactly at a read of
\* `initializing` made with detection_count above the midpoint of
\* min_drop_life and max_drop_life: a read of an initializing track at or
\* below the midpoint leaves it initializing without an id, a read above it
\* clears the flag and assigns the id, and no other operation clears the flag.
C11_LeavesAtRead ==
    LET t == tracked_objects[1]
        above == 2 * last_op.dc > min_drop_life + max_drop_life
    IN  /\ (last_op.op = "initializing" /\ last_op.flag /\ ~above) =>
               (t.initializing_flag /\ t.id = 0)
        /\ (last_op.op = "initializing" /\ last_op.flag /\ above) =>
               (~t.initializing_flag /\ t.id = track_count /\ t.id > 0)
        /\ (last_op.flag /\ ~t.initializing_flag) =>
               (last_op.op = "initializing" /\ above)
        /\ t.initializing_flag => t.id = 0

\* a read has just taken a track that was stepped before out of the
\* initializing state
C11_Witness ==
    /\ last_op.op = "initializing"
    /\ last_op.flag
    /\ ~tracked_objects[1].initializing_flag
    /\ tracked_objects[1].id = 1
    /\ tracked_objects[1].age > 0

\* the ids of the live tracks that have one
LiveIds == {tracked_objects[i].id : i \in {j \in 1..Len(tracked_objects) : tracked_objects[j].id # 0}}

\* C12: in a Tracker, a track that has an id keeps it for as long as it is
\* live, the ids assigned so far (to live and to dropped tracks) are
\* pairwise different, and they were assigned in strictly increasing order.
C12_IdsStableUniqueIncreasing ==
    /\ [](/\ \A i, j \in 1..Len(id_log) : i < j => id_log[i] < id_log[j]
          /\ \A i, j \in 1..Len(tracked_objects) :
                 (i # j /\ tracked_objects[i].id # 0) =>
                     tracked_objects[i].id # tracked_objects[j].id
          /\ LiveIds \subseteq {id_log[k] : k \in 1..Len(id_log)})
    /\ [][LET live == SelectSeq(tracked_objects, has_momentum)
          IN  \A i \in 1..Len(live) :
                  live[i].id # 0 =>
                      /\ i <= Len(tracked_objects')
                      /\ tracked_objects'[i].id = live[i].id]_vars

\* two ids have been assigned, the track of one of them has been dropped and
\* the track of the other is live
C12_Witness ==
    /\ Len(id_log) = 2
    /\ \E k \in 1..2 : id_log[k] \notin LiveIds
    /\ LiveIds # {}

\* the two update_tracks calls of the update made last
Calls == IF last_op.op = "update" THEN {1, 2} ELSE {}

\* C13: within one update_tracks call, no detection and no track is in more
\* than one of the pairs for which Track.add is called.
C13_PairsDisjoint ==
    \A c \in Calls :
        \A i, j \in 1..Len(last_op.fused[c]) :
            i # j => /\ last_op.fused[c][i].det # last_op.fused[c][j].det
                     /\ last_op.fused[c][i].track # last_op.fused[c][j].track

\* one update_tracks call has fused two pairs
C13_Witness == \E c \in Calls : Len(last_op.fused[c]) = 2

\* C14: every pair for which update_tracks calls Track.add has a value of
\* distance_function strictly below distance_threshold.
C14_FusedBelowThreshold ==
    \A c \in Calls :
        \A i \in 1..Len(last_op.fused[c]) :
            last_op.fused[c][i].distance < DistanceThreshold

\* a pair just below the threshold has been fused while the other detection
\* of the update was not
C14_Witness ==
    \E c \in Calls :
        /\ last_op.nd = 2
        /\ Len(last_op.fused[c]) = 1
        /\ Len(last_op.fused[3 - c]) = 0
        /\ last_op.fused[c][1].distance = DistanceThreshold - 1

\* what a read of `initializing` on the track t would return now
ReadsInitializing(t) == initializing(t, track_count).track.initializing_flag

\* C15: Tracker.update returns exactly the live tracks that are not
\* initializing: the returned list is the list of the live tracks on which
\* `initializing` reads false, in order, each of them has an id, and a
\* track on which it reads true is not in it.
C15_ReturnsInitialized ==
    last_op.op = "update" =>
        /\ last_op.returned = SelectSeq(tracked_objects, LAMBDA t : ~ReadsInitializing(t))
        /\ \A k \in 1..Len(last_op.returned) :
               /\ last_op.returned[k].id # 0
               /\ ~last_op.returned[k].initializing_flag
        /\ \A i \in 1..Len(tracked_objects) :
               ReadsInitializing(tracked_objects[i]) =>
                   \A k \in 1..Len(last_op.returned) :
                       last_op.returned[k] # tracked_objects[i]

\* an update has returned one track and kept back a live track that is
\* still initializing
C15_Witness ==
    /\ last_op.op = "update"
    /\ Len(last_op.returned) = 1
    /\ Len(tracked_objects) = 2
    /\ \E i \in 1..2 : tracked_objects[i].initializing_flag

\* C16 as stated: with the lives 10 and 25 and the threshold 20, an update
\* of an empty tracker with a single detection spawns one initializing
\* track with detection_count 11, and after 8 more updates that each fuse
\* their single detection the track has detection_count 25, is not
\* initializing and has its id.
C16_ExampleAsStated ==
    /\ last_op.follow = 0 =>
           /\ Len(tracked_objects) = 1
           /\ tracked_objects[1].detection_count = 11
           /\ tracked_objects[1].initializing_flag
    /\ last_op.follow = 8 =>
           /\ tracked_objects[1].detection_count = 25
           /\ ~tracked_objects[1].initializing_flag
           /\ tracked_objects[1].id # 0

\* C16 amended: the same run ends with detection_count 19, each of the 8
\* updates stepping the count down by 1 before the fusion raises it by 2.
C16_Example ==
    /\ last_op.follow = 0 =>
           /\ Len(tracked_objects) = 1
           /\ tracked_objects[1].detection_count = 11
           /\ tracked_objects[1].initializing_flag
    /\ last_op.follow = 8 =>
           /\ tracked_objects[1].detection_count = 19
           /\ ~tracked_objects[1].initializing_flag
           /\ tracked_objects[1].id # 0

\* the ninth update of such a run has been made
C16_Witness ==
    /\ last_op.follow = 8
    /\ Len(tracked_objects) = 1
    /\ tracked_objects[1].age = 8

\* the live tracks as old as the run of idle updates: the track that the
\* update before the run spawned
IdleTrack == {i \in 1..Len(tracked_objects) : tracked_objects[i].age = last_op.idle}

\* C17 as stated: with min_drop_life 10, a track spawned with
\* detection_count 11 and matched in none of the following updates is out
\* of the live set when the update whose tracker_step first brings its
\* count below 10 (the second of them) is over.
C17_RemovedWhenBelow ==
    (min_drop_life = 10 /\ last_op.idle >= 2) => IdleTrack = {}

(***************************************************************************)
(* Claims about the worker's metrics and results.                          *)
(***************************************************************************)
\* a counter of the metrics snapshot the client received last
Snapshot(key) == PyGet(server_metrics, PyStr(key)).n

\* C18 as stated: in every metrics snapshot a worker sends in a response,
\* whatever the receive, compute and send durations and the stalls before
\* it, the load comp_time / overall_time lies in [0, 1].
C18_LoadInUnitInterval ==
    PyHasKey(server_metrics, PyStr("comp_time")) =>
        /\ Snapshot("overall_time") > 0
        /\ 0 <= Snapshot("comp_time")
        /\ Snapshot("comp_time") <= Snapshot("overall_time")

\* C19 as stated: an update in which distance_function returned nan,
\* +infinity or -infinity for some pair raises an error instead of
\* returning.
C19_SpecialDistanceRaises ==
    (last_op.op \in {"update", "raised"} /\ last_op.asked \cap SpecialDists # {}) =>
        last_op.op = "raised"

\* C20: when process returns a value that is neither a dict nor an array,
\* the worker sends no response for that request and run raises; from then
\* on the worker receives no request, calls process no more and sends
\* nothing.
C20_UnsupportedResultIsFatal ==
    [][/\ (wpc = "process" /\ wreq'.result = "other") =>
              /\ wpc' = "failed"
              /\ sent'["server"] = sent["server"]
              /\ pipe'["client"] = pipe["client"]
       /\ wreq.result = "other" =>
              /\ wpc' = "failed"
              /\ recvd'["server"] = recvd["server"]
              /\ nprocess' = nprocess
              /\ sent'["server"] = sent["server"]
              /\ Len(pipe'["client"]) <= Len(pipe["client"])]_vars

\* the worker has answered one request, has raised on the result of the
\* second, and the client has sent a request since
C20_Witness ==
    /\ wreq.result = "other"
    /\ wpc = "failed"
    /\ nprocess = 2
    /\ Len(sent["server"]) = 1
    /\ Len(pipe["server"]) > 0

\* the shapes the claim takes as well formed: n x 2, and the single point
\* (2,) that validate_points_shape turns into 1 x 2
WellFormed(shape) == shape = RowShape \/ (Len(shape) = 2 /\ shape[2] = 2)

\* C21 as stated: a Detection whose points are not [n x 2] is refused when
\* it is built, so that none is given to Tracker.update or to
\* distance_function with a track.
C21_MalformedRejected ==
    last_op.op \in {"update", "raised"} =>
        \A det \in last_op.passed \cup last_op.compared : WellFormed(det.points)

\* C22 as stated: the worker leaves its loop only on a request whose stop
\* value is true; a request with stop = false goes to process like a
\* request without the key.
C22_StopFalseIsServed ==
    [][(/\ ServerReceives
        /\ ~got'["server"].err
        /\ got'["server"].val.t = "dict"
        /\ PyHasKey(got'["server"].val, PyStr("stop"))
        /\ ~Truthy(PyGet(got'["server"].val, PyStr("stop")))) =>
           wpc' = "process"]_vars

\* C23: when process handles a request with reset = true, the update is made
\* on a new tracker: no track that existed before is fused, kept or
\* returned, the tracker holds exactly the tracks created from the
\* detections of this request, and the ids start again: none is assigned
\* yet, and the first one assigned later is the first id, 1.
C23_ResetStartsAfresh ==
    /\ (last_op.op = "update" /\ last_op.reset) =>
           /\ last_op.fused = <<<<>>, <<>>>>
           /\ Len(tracked_objects) = last_op.nd
           /\ \A i \in 1..Len(tracked_objects) :
                  tracked_objects[i] = Track(1, 10, 25)
           /\ \A i \in 1..Len(last_op.returned) :
                  \E j \in 1..Len(tracked_objects) : last_op.returned[i] = tracked_objects[j]
           /\ track_count = 0
           /\ id_log = <<>>
    /\ id_log # <<>> => id_log[1] = 1

\* a reset request with one detection has replaced a tracker that held a
\* track
C23_Witness ==
    /\ last_op.op = "update"
    /\ last_op.reset
    /\ last_op.had > 0
    /\ last_op.nd = 1

\* C24 as stated: when the receive of a request took longer than the stall
\* threshold, the counters process puts into the response to that request
\* (the worker is about to call process; the response is sent before
\* send_time and overall_time are added to) are those of init_metrics:
\* iteration 1 and nothing of the stalled receive or of earlier iterations
\* in recv_time, send_time and overall_time.
C24_StallResetsCounters ==
    (wpc = "process" /\ wreq.recv_dur > StallThreshold) =>
        /\ metrics.iteration = init_metrics.iteration
        /\ metrics.overall_time = init_metrics.overall_time
        /\ metrics.send_time = init_metrics.send_time
        /\ metrics.recv_time = init_metrics.recv_time

\* C25 as stated: a step that is not an update of this Tracker (another
\* Tracker is constructed or updated) leaves the id this Tracker assigns
\* next as it was, and the ids this Tracker has assigned are strictly
\* increasing, hence unique.
C25_OwnCounter ==
    [][/\ ncalls' = ncalls => track_count' = track_count
       /\ \A i, j \in 1..Len(id_log') : i < j => id_log'[i] < id_log'[j]]_vars

\* C26 as stated: whatever messages the peer has sent, every recv_array
\* consumes two frames, the header and the payload of one and the same
\* buffer message.
C26_FramesOfOneMessageAny ==
    \A e \in Endpoints :
        \A i \in 1..Len(recvd[e]) :
            recvd[e][i].op = "array" =>
                /\ Len(recvd[e][i].mids) = 2
                /\ recvd[e][i].mids[1] = recvd[e][i].mids[2]
                /\ SentFor(e, i).op = "array"

\* C26 amended: while every receive has used the operation that matches the
\* message it started on (recv_array for a buffer message, recv_dict for a
\* dict message), every recv_array consumes the header and the payload of
\* one and the same buffer message, and the array it returns has the dtype,
\* the shape and the bytes of that message.
C26_FramesOfOneMessage ==
    \A e \in Endpoints :
        InStep(e) =>
            /\ \A i \in 1..Len(recvd[e]) :
                   recvd[e][i].op = "array" =>
                       /\ Len(recvd[e][i].mids) = 2
                       /\ recvd[e][i].mids[1] = recvd[e][i].mids[2]
                       /\ SentFor(e, i).op = "array"
            /\ (recvd[e] # <<>> /\ got[e].op = "array") =>
                   /\ ~got[e].err
                   /\ got[e].arr.dtype = LastSent(e).arr.dtype
                   /\ got[e].arr.shape = LastSent(e).arr.shape
                   /\ BufferOf(got[e].arr) = BufferOf(ascontiguousarray(LastSent(e).arr))

\* the server has received, in step, the second of two buffer messages of
\* the client
C26_Witness ==
    /\ InStep("server")
    /\ Len(recvd["server"]) = 2
    /\ recvd["server"][1].op = "array"
    /\ recvd["server"][2].op = "array"
    /\ ~got["server"].err

\* where run is: before its loop (build not yet returned), in the loop, or
\* past it (break, exception, or the process terminated)
Phase(pc) ==
    CASE pc = "building" -> "Building"
      [] pc \in {"recv", "process"} -> "Serving"
      [] OTHER -> "Stopped"

\* C27: the worker goes from Building to Serving to Stopped and never back
\* (only the terminate of the client's stop can end it while it is still
\* Building); it enters Serving by build, which binds the channel and
\* resets the metrics, and build runs only then, hence once; it receives
\* requests only while Serving; and once Stopped it stays as it is and
\* neither receives, processes nor sends.
C27_PhasesInOrder ==
    [][/\ Phase(wpc) = "Building" =>
              /\ Phase(wpc') \in {"Building", "Serving"} \/ wpc' = "terminated"
              /\ recvd["server"] = <<>> /\ recvd'["server"] = <<>>
              /\ sent'["server"] = <<>>
       /\ Phase(wpc) = "Serving" => Phase(wpc') \in {"Serving", "Stopped"}
       /\ Phase(wpc) = "Stopped" =>
              /\ wpc' = wpc
              /\ recvd'["server"] = recvd["server"]
              /\ sent'["server"] = sent["server"]
              /\ nprocess' = nprocess
       /\ (Phase(wpc) = "Building" /\ Phase(wpc') = "Serving") =>
              /\ created' = Append(created, "server")
              /\ metrics' = init_metrics
       /\ created' # created =>
              /\ Phase(wpc) = "Building" /\ Phase(wpc') = "Serving"
              /\ ~IsCreated("server")
       /\ ServerReceives => Phase(wpc) = "Serving" /\ IsCreated("server")]_vars

\* the worker has built, served a request, left its loop on the stop
\* request, and the client has terminated it
C27_Witness ==
    /\ wpc = "stopped"
    /\ cpc = "stopped"
    /\ nprocess > 0
    /\ Len(recvd["server"]) = nprocess + 1
    /\ sent["server"] # <<>>

\* the cells of the matrix of the last match whose row and column are not
\* those of one of its first k pairs
Remaining(k) ==
    {c \in (1..last_op.nd) \X (1..last_op.nt) :
        \A i \in 1..k : last_op.pairs[i][1] # c[1] /\ last_op.pairs[i][2] # c[2]}

\* the entry of the matrix of the last match at the cell c
Entry(c) == last_op.m[c[1]][c[2]]

\* C29: match returns the pairs of the greedy procedure.  Each pair is a
\* cell left by the pairs before it (no row or column in common), its entry
\* is below distance_threshold and is the smallest of the cells left, and
\* it is the first such cell in row-major order; after the last pair no
\* cell left is below the threshold.  The entries of the pairs are in
\* non-decreasing order and the first is the minimum of the matrix.
C29_GreedyPairs ==
    last_op.op = "match" =>
        /\ \A k \in 1..Len(last_op.pairs) :
               LET p == last_op.pairs[k]
               IN  /\ p \in Remaining(k - 1)
                   /\ Entry(p) < DistanceThreshold
                   /\ \A c \in Remaining(k - 1) :
                          /\ Entry(p) <= Entry(c)
                          /\ Entry(c) = Entry(p) =>
                                 (p[1] < c[1] \/ (p[1] = c[1] /\ p[2] <= c[2]))
        /\ \A c \in Remaining(Len(last_op.pairs)) : ~(Entry(c) < DistanceThreshold)
        /\ \A j, k \in 1..Len(last_op.pairs) :
               j < k => Entry(last_op.pairs[j]) <= Entry(last_op.pairs[k])
        /\ last_op.pairs # <<>> =>
               \A c \in Remaining(0) : Entry(last_op.pairs[1]) <= Entry(c)

\* match has returned two pairs after a tie for the smallest entry, which
\* the cell first in row-major order won
C29_Witness ==
    /\ last_op.op = "match"
    /\ last_op.nd = 2 /\ last_op.nt = 2
    /\ last_op.pairs = <<<<1, 2>>, <<2, 1>>>>
    /\ last_op.m[2][2] = last_op.m[1][2]
    /\ last_op.m[1][1] > last_op.m[1][2]
    /\ last_op.m[2][1] > last_op.m[1][2]

\* the detections fused by the c-th update_tracks call of the last update
FusedDets(c) == {last_op.fused[c][i].det : i \in 1..Len(last_op.fused[c])}

\* C28: in an update, the first update_tracks call fuses only tracks that
\* are not initializing and the second only initializing ones; a detection
\* the second call fuses was left unmatched by the first; and a detection
\* the first call left unmatched has every non-initializing track at less
\* than distance_threshold from it fused with another detection by that
\* call.
C28_SettledTracksFirst ==
    last_op.op = "update" =>
        /\ \A i \in 1..Len(last_op.fused[1]) : last_op.fused[1][i].track \in last_op.settled
        /\ \A i \in 1..Len(last_op.fused[2]) :
               /\ last_op.fused[2][i].track \notin last_op.settled
               /\ last_op.fused[2][i].det \notin FusedDets(1)
        /\ \A d \in (1..last_op.nd) \ FusedDets(1) :
               \A t \in last_op.settled :
                   <<d, t>> \in last_op.below =>
                       \E i \in 1..Len(last_op.fused[1]) :
                           /\ last_op.fused[1][i].track = t
                           /\ last_op.fused[1][i].det # d

\* the second call has fused with an initializing track a detection that
\* was near a track the first call fused with the other detection
C28_Witness ==
    /\ last_op.op = "update"
    /\ last_op.nd = 2
    /\ Len(last_op.fused[1]) = 1
    /\ Len(last_op.fused[2]) = 1
    /\ <<last_op.fused[2][1].det, last_op.fused[1][1].track>> \in last_op.below

\* C30: in an update every detection is in exactly one place: in one pair
\* fused by one of the two update_tracks calls, with a track that was there
\* before, or in one new track, which Track.__init__ leaves initializing,
\* without id and with detection_count = min_drop_life + 1; the new tracks
\* are appended to the tracks of the tracker.
C30_EachDetectionOnce ==
    last_op.op = "update" =>
        /\ \A d \in 1..last_op.nd :
               Cardinality({p \in {1, 2} \X (1..last_op.nd) :
                               /\ p[2] <= Len(last_op.fused[p[1]])
                               /\ last_op.fused[p[1]][p[2]].det = d})
                   + Cardinality({k \in 1..Len(last_op.spawned) : last_op.spawned[k].det = d})
                   = 1
        /\ Len(last_op.spawned) <= Len(tracked_objects)
        /\ \A c \in {1, 2} : \A i \in 1..Len(last_op.fused[c]) :
               last_op.fused[c][i].track \in
                   1..(Len(tracked_objects) - Len(last_op.spawned))
        /\ \A k \in 1..Len(last_op.spawned) :
               /\ last_op.spawned[k].track.initializing_flag
               /\ last_op.spawned[k].track.id = 0
               /\ last_op.spawned[k].track.detection_count = min_drop_life + 1

\* an update has fused one of its two detections and made a track of the
\* other
C30_Witness ==
    /\ last_op.op = "update"
    /\ last_op.nd = 2
    /\ Len(last_op.fused[1]) + Len(last_op.fused[2]) = 1
    /\ Len(last_op.spawned) = 1

Selected(i) == ~last_op.conf.given \/ last_op.conf.mask[i]

\* math.ceil(max_drop_life / 4)
CeilQuarter == (max_drop_life + 3) \div 4

\* the point-level maximum of the track: ceil(max_drop_life / 4), or one
\* more than floor(min_drop_life / 4) when that is not below it
PointMax ==
    IF CeilQuarter - (min_drop_life \div 4) < 1 THEN (min_drop_life \div 4) + 1
    ELSE CeilQuarter

\* x cut to the range 0..top
Cut(x, top) == IF x < 0 THEN 0 ELSE IF x > top THEN top ELSE x

\* C32 as stated: after every add each entry of point_detection_count lies
\* in [0, ceil(max_drop_life / 4)], whatever min_drop_life <= max_drop_life:
\* it is the entry before the add, raised by 2 if the point was selected
\* and not raised if it was not, cut to that range.
C32_PointCountInRangeAny ==
    last_op.op = "add" =>
        \A i \in 1..PointsCount :
            /\ tracked_objects[1].point_detection_count[i] \in 0..CeilQuarter
            /\ tracked_objects[1].point_detection_count[i] =
                   Cut(last_op.before.point_detection_count[i]
                           + (IF Selected(i) THEN 2 ELSE 0), CeilQuarter)

\* C32 amended: the same with the point-level maximum of the track as the
\* upper end, which is ceil(max_drop_life / 4) unless
\* floor(min_drop_life / 4) >= ceil(max_drop_life / 4), when it is
\* floor(min_drop_life / 4) + 1.
C32_PointCountInRange ==
    last_op.op = "add" =>
        \A i \in 1..PointsCount :
            /\ tracked_objects[1].point_detection_count[i] \in 0..PointMax
            /\ tracked_objects[1].point_detection_count[i] =
                   Cut(last_op.before.point_detection_count[i]
                           + (IF Selected(i) THEN 2 ELSE 0), PointMax)

\* an add has left a selected point at a maximum above
\* ceil(max_drop_life / 4) and has lifted the other point, not selected and
\* below 0, to 0
C32_Witness ==
    /\ last_op.op = "add"
    /\ PointMax > CeilQuarter
    /\ \E i, j \in 1..PointsCount :
           /\ Selected(i)
           /\ tracked_objects[1].point_detection_count[i] = PointMax
           /\ ~Selected(j)
           /\ last_op.before.point_detection_count[j] < 0
           /\ tracked_objects[1].point_detection_count[j] = 0

\* C33: an add sets the detected_at_least_once flag of the points it
\* selected and leaves the flag of the others as it was; tracker_step and
\* the reads of `initializing` leave every flag as it was; so a flag that is
\* true is never false again.
C33_SeenIsMonotonic ==
    [][ncalls' = ncalls + 1 =>
           \A i \in 1..PointsCount :
               LET was == tracked_objects[1].detected_at_least_once_points[i]
                   is == tracked_objects'[1].detected_at_least_once_points[i]
               IN  /\ was => is
                   /\ last_op'.op = "add" =>
                          is = (was \/ ~last_op'.conf.given \/ last_op'.conf.mask[i])
                   /\ last_op'.op # "add" => is = was]_vars

\* an add that selected one point has left the flag of the other, set by an
\* earlier add, true, after an add that had left a flag false
C33_Witness ==
    /\ last_op.op = "add"
    /\ \E i, j \in 1..PointsCount :
           /\ ~Selected(i)
           /\ last_op.before.detected_at_least_once_points[i]
           /\ tracked_objects[1].detected_at_least_once_points[i]
           /\ Selected(j)
           /\ ~last_op.before.detected_at_least_once_points[j]
           /\ tracked_objects[1].detected_at_least_once_points[j]

\* C34: right after an add, the velocity of every point that no earlier add
\* of the track had selected is zero, and the velocity of a point an earlier
\* add had selected is the one filter.update computed.
C34_FirstVelocityZero ==
    last_op.op = "add" =>
        \A i \in 1..PointsCount :
            tracked_objects[1].velocity[i] =
                IF last_op.before.detected_at_least_once_points[i] THEN "updated" ELSE "zero"

\* an add has selected a point for the first time and another point that an
\* earlier add had selected
C34_Witness ==
    /\ last_op.op = "add"
    /\ \E i, j \in 1..PointsCount :
           /\ Selected(i)
           /\ ~last_op.before.detected_at_least_once_points[i]
           /\ tracked_objects[1].velocity[i] = "zero"
           /\ Selected(j)
           /\ last_op.before.detected_at_least_once_points[j]
           /\ tracked_objects[1].velocity[j] = "updated"

(***************************************************************************)
(* Claims about the Processor and the metrics (SpecProc).                  *)
(***************************************************************************)
\* the step is a receive of the client
ClientReceives == Len(recvd'["client"]) = Len(recvd["client"]) + 1

\* C35 as stated: when VideoProcessor.recv receives a result with peaks,
\* whatever the frame indices in it, it returns, and for every frame index
\* k of the result the list at position k of the returned peaks holds the
\* points whose frame_idx is k, in their order.
C35_PeaksByFrame ==
    [][(/\ ClientReceives
        /\ kind = "video"
        /\ ~got'["client"].err
        /\ got'["client"].val.t = "dict"
        /\ PyHasKey(got'["client"].val, PyStr("metrics"))
        /\ PyHasKey(got'["client"].val, PyStr("peaks"))) =>
           LET peaks == PyGet(got'["client"].val, PyStr("peaks"))
               idx == IdxOf(peaks)
               out == PeakPoints(peaks).items
           IN  /\ last_recv'.ret = "dict"
               /\ \A i \in 1..Len(idx) :
                      /\ idx[i] + 1 \in 1..Len(out)
                      /\ \E j \in 1..Len(out[idx[i] + 1].items) :
                             out[idx[i] + 1].items[j] =
                                 <<idx[i], PyGet(peaks, PyStr("points")).items[i]>>]_vars

\* C36 as stated: the iteration counter process puts into a response is the
\* number of requests the worker has received since its metrics were last
\* reset, at build or after a stalled receive, the current one included.
C36_IterationCountsRequests ==
    wpc = "process" => metrics.iteration = wreq.since

\* C37 as stated: the reset flag of a TrackProcessor, once reset_tracks has
\* set it, is cleared only by the recv of the response to a request that
\* carried reset = true (the n-th receive of the client answers its n-th
\* request); send puts the flag into its args, so that the first request
\* sent after reset_tracks carries reset = true.
C37_ResetNotLost ==
    [][(kind = "track" /\ reset_flag /\ ~reset_flag') =>
           /\ ClientReceives
           /\ Truthy(PyGet(sent["client"][Len(recvd'["client"])].val, PyStr("reset")))]_vars

\* C38: a track leaves the initializing state only at the read of
\* `initializing` that ends an update in which it was fused with a detection
\* (by the second update_tracks, the one of the initializing tracks) or was
\* spawned: the reads that build the two lists of an update assign no id,
\* and a track that was initializing before an update and is not after it
\* was fused by the second update_tracks of that update.
C38_GraduatesAtEndOfCycle ==
    [][ncalls' = ncalls + 1 =>
           LET kept == SelectSeq(tracked_objects, LAMBDA t : ~(t.detection_count < min_drop_life))
           IN  /\ last_op'.early = 0
               /\ \A i \in 1..Len(kept) :
                      (kept[i].initializing_flag /\ ~tracked_objects'[i].initializing_flag) =>
                          \E k \in 1..Len(last_op'.fused[2]) : last_op'.fused[2][k].track = i]_vars

\* an update fused an initializing track with a detection and the track is
\* not initializing after it
C38_Witness ==
    /\ last_op.op = "update"
    /\ \E k \in 1..Len(last_op.fused[2]) :
           ~tracked_objects[last_op.fused[2][k].track].initializing_flag

\* the number of Track.add calls an update made on the track at position i
TimesFused(op, i) ==
    Cardinality({c \in {1, 2} \X (1..MaxDet) :
                    c[2] <= Len(op.fused[c[1]]) /\ op.fused[c[1]][c[2]].track = i})

\* C39: in an update every track that got through the pruning is given to
\* exactly one of the two update_tracks calls, the first if it is not
\* initializing and the second if it is, and is fused with at most one
\* detection, by the call it was given to; its detection_count after the
\* update is one less than before, or one more if it was fused.  (An update
\* that raised gave up before the end: of it, the fusions and the counts.)
C39_OnePassOneFusion ==
    [][ncalls' = ncalls + 1 =>
           LET kept == SelectSeq(tracked_objects, LAMBDA t : ~(t.detection_count < min_drop_life))
               op == last_op'
           IN  \A i \in 1..Len(kept) :
                   /\ op.op = "update" =>
                          /\ (i \in op.settled) # (i \in op.starting)
                          /\ i \in op.settled <=> ~kept[i].initializing_flag
                          /\ \A k \in 1..Len(op.fused[1]) : op.fused[1][k].track \in op.settled
                          /\ \A k \in 1..Len(op.fused[2]) : op.fused[2][k].track \in op.starting
                   /\ TimesFused(op, i) <= 1
                   /\ tracked_objects'[i].detection_count - kept[i].detection_count \in {-1, 1}
                   /\ TimesFused(op, i) = 0 =>
                          tracked_objects'[i].detection_count = kept[i].detection_count - 1]_vars

\* an update with two detections fused one with a track that was not
\* initializing and the other with a track that was
C39_Witness ==
    /\ last_op.op = "update"
    /\ last_op.nd = 2
    /\ Len(last_op.fused[1]) = 1
    /\ Len(last_op.fused[2]) = 1

\* the live tracks that the quiet updates made last found in the tracker:
\* a track spawned by the j-th of k quiet updates has stepped k - j times
Unmatched == SelectSeq(tracked_objects, LAMBDA t : t.age >= last_op.quiet)

====
